---- MODULE Spec2Model ----
(***************************************************************************)
(* Absence-management front end (React pages Users, Dashboard, Approvals,  *)
(* MyRequests, Settings and the router around them) together with the      *)
(* hours-balance ledger it drives over HTTP.                               *)
(*                                                                         *)
(* The pages are translated from the sources under src/.  The server side  *)
(* of the REST calls is not part of the sources; it is modelled from the   *)
(* specification (section 4.1, 5, 6, 7) and kept in the "Server" section.  *)
(*                                                                         *)
(* Numbers of hours are fixed-point numbers counted in half hours, the     *)
(* step of every hours input (step="0.5"): 8 h is 16, 0.5 h is 1.          *)
(* Text typed into an input is a sequence of one-character strings.        *)
(* An async handler is split at its await: the part before the await is    *)
(* one action and puts a call in flight, the server's handling of the call *)
(* is a second action, and the part after the await (the try block's       *)
(* remainder or the catch block, and the finally block) is a third.        *)
(* A calendar date is the number of its day, and an instant a day with a   *)
(* time of the day.  The page of the pending requests with a single list   *)
(* (an Approvals component of its own) keeps its state in the variable of  *)
(* the Approvals page.                                                     *)
(* Free-text notes of a request or an adjustment, which no handler reads,  *)
(* are left out, and so are the tabs, the month shown by the calendar, the *)
(* export to Excel, the identity fields of the create dialog of the Users  *)
(* page, the saving of the settings and the settings the Layout loads for  *)
(* its logo.                                                               *)
(***************************************************************************)
EXTENDS Integers, Sequences, FiniteSets, TLC

-----------------------------------------------------------------------------
(* Bounds of the model *)

NumUsers == 2        \* user accounts in the store; user 1 is the admin
MaxAbsences == 2     \* absence requests ever created
MaxCalls == 2        \* HTTP calls in flight at the same time
MaxOps == 2          \* state-changing requests a session of the Users or the Approvals page sends
MaxRequests == 1     \* requests a session of the Dashboard creates
MaxDay == 2          \* calendar days 1..MaxDay

UserIds == 1..NumUsers
NoUser == 0
AbsenceIds == 1..MaxAbsences
NoAbsence == 0
Days == 1..MaxDay
NoDate == 0

-----------------------------------------------------------------------------
(* JavaScript values *)

Num(n) == [t |-> "number", v |-> n]
NaN == [t |-> "NaN", v |-> 0]
null == [t |-> "null", v |-> 0]

Digits == <<"0", "1", "2", "3", "4", "5", "6", "7", "8", "9">>
IsDigit(c) == \E i \in 1..Len(Digits) : Digits[i] = c
DigitVal(c) == (CHOOSE i \in 1..Len(Digits) : Digits[i] = c) - 1

RECURSIVE DigitRun(_, _)
\* number of consecutive digits of s starting at position i
DigitRun(s, i) ==
    IF i <= Len(s) /\ IsDigit(s[i]) THEN 1 + DigitRun(s, i + 1) ELSE 0

RECURSIVE DecimalVal(_, _, _)
\* value of the digits s[i..j] read as a decimal numeral (0 when i > j)
DecimalVal(s, i, j) ==
    IF i > j THEN 0 ELSE 10 * DecimalVal(s, i, j - 1) + DigitVal(s[j])

\* A mutant of parseFloat: the sign is read and then dropped.
ParseFloatUnsigned(s) ==
    LET signed == Len(s) >= 1 /\ s[1] \in {"-", "+"}
        i0 == IF signed THEN 2 ELSE 1
        n == DigitRun(s, i0)
    IN  IF n = 0 THEN NaN ELSE Num(2 * DecimalVal(s, i0, i0 + n - 1))

\* parseFloat: optional sign, digits, optional fraction; the longest such
\* prefix is converted and the rest ignored; NaN when there is no digit.
\* The fraction is kept to the half hour.
ParseFloat(s) ==
    LET signed == Len(s) >= 1 /\ s[1] \in {"-", "+"}
        neg == Len(s) >= 1 /\ s[1] = "-"
        i0 == IF signed THEN 2 ELSE 1
        n == DigitRun(s, i0)
        dot == i0 + n <= Len(s) /\ s[i0 + n] = "."
        m == IF dot THEN DigitRun(s, i0 + n + 1) ELSE 0
        half == IF m >= 1 /\ DigitVal(s[i0 + n + 1]) >= 5 THEN 1 ELSE 0
        mag == 2 * DecimalVal(s, i0, i0 + n - 1) + half
    IN  IF n + m = 0 THEN NaN ELSE Num(IF neg THEN 0 - mag ELSE mag)

\* parseFloat(s) || 0: NaN and 0 are falsy and give 0.
ParseFloatOrZero(s) ==
    LET h == ParseFloat(s) IN IF h.t = "number" THEN h.v ELSE 0

RECURSIVE DecimalDigits(_)
\* the decimal numeral of a natural number
DecimalDigits(k) ==
    IF k < 10 THEN <<Digits[k + 1]>>
    ELSE DecimalDigits(k \div 10) \o <<Digits[(k % 10) + 1]>>

\* Number.prototype.toString of a number of hours: the sign, the whole hours
\* and ".5" for a half hour.
NumberToString(n) ==
    LET mag == IF n < 0 THEN 0 - n ELSE n
    IN  (IF n < 0 THEN <<"-">> ELSE <<>>)
        \o DecimalDigits(mag \div 2)
        \o (IF mag % 2 = 1 THEN <<".", "5">> ELSE <<>>)

\* JSON.stringify of a number: NaN is serialised as null.
ToJSON(x) == IF x.t = "NaN" THEN null ELSE x

\* !s for a string s: only the empty string is falsy ("0" is truthy).
Falsy(s) == s = <<>>


-----------------------------------------------------------------------------
(* State *)

VARIABLES
    db_users,      \* server: user_id -> user document
    db_absences,   \* server: absence_id -> absence document
    currentUser,   \* AuthContext user of the browser session
    route,         \* page the router renders
    calls,         \* HTTP calls in flight, each with the handler awaiting it
    toast,         \* the last toast shown
    opCount,       \* state-changing requests sent so far
    ledger,        \* history: the totals at the start and the writes since
    usersPage,     \* state of the Users component
    dashboard,     \* state of the Dashboard component
    approvals,     \* state of the Approvals component
    myRequests,    \* state of the MyRequests component
    settingsPage   \* state of the Settings component

vars == <<db_users, db_absences, currentUser, route, calls, toast, opCount,
          ledger, usersPage, dashboard, approvals, myRequests, settingsPage>>

EmptyMap == [x \in {} |-> x]
Without(f, k) == [x \in DOMAIN f \ {k} |-> f[x]]
RemoveAt(q, i) == SubSeq(q, 1, i - 1) \o SubSeq(q, i + 1, Len(q))

NoToast == [type |-> "none", message |-> ""]
Toast(type, message) == [type |-> type, message |-> message]

NoSession == [user_id |-> NoUser, role |-> ""]

\* A call in flight: the awaiting handler, the endpoint, the authenticated
\* caller, the path parameter, the JSON body, the outcome and response data,
\* the server's cursor (monthly accrual) and the values the handler's closure
\* captured at the render it was invoked from.
Call(handler, api, id, body, closure) ==
    [handler |-> handler, api |-> api, caller |-> currentUser.user_id,
     id |-> id, body |-> body, st |-> "sent", data |-> null,
     cursor |-> {}, closure |-> closure]

\* The history with one more write.
Logged(entry) == [ledger EXCEPT !.log = Append(@, entry)]

Sent(i) == i \in 1..Len(calls) /\ calls[i].st = "sent"
Settled(i) == i \in 1..Len(calls) /\ calls[i].st \in {"ok", "err"}
Respond(i, st, data) == [calls EXCEPT ![i].st = st, ![i].data = data]

-----------------------------------------------------------------------------
(* Server: the balance ledger and the stores behind the REST calls.        *)
(* Modelled from the specification.                                        *)

AdjustmentRoles == {"admin", "manager", "ufficio_personale"}
AccrualRoles == {"admin", "ufficio_personale"}

Authorized(caller, roles) ==
    caller \in DOMAIN db_users /\ db_users[caller].role \in roles

TotalKey(hours_type) ==
    IF hours_type = "ferie" THEN "total_ferie_hours" ELSE "total_permessi_hours"

\* adjustHours(userId, category, deltaHours): a validation error when the
\* user does not exist or deltaHours is not a number; otherwise deltaHours is
\* added to the user's total of the category, with no lower bound.
adjustHours(users, userId, hours_type, hours) ==
    IF \/ userId \notin DOMAIN users
       \/ hours.t # "number"
       \/ hours_type \notin {"ferie", "permessi"}
    THEN [ok |-> FALSE, users |-> users]
    ELSE [ok |-> TRUE,
          users |-> [users EXCEPT ![userId][TotalKey(hours_type)] = @ + hours.v]]

\* A mutant of accrueUser: the vacation rate is added to both totals.
accrueUserOneRate(users, u) ==
    [users EXCEPT ![u].total_ferie_hours = @ + users[u].monthly_ferie_hours,
                  ![u].total_permessi_hours = @ + users[u].monthly_ferie_hours]

\* One per-user write of runMonthlyAccrual.
accrueUser(users, u) ==
    [users EXCEPT ![u].total_ferie_hours = @ + users[u].monthly_ferie_hours,
                  ![u].total_permessi_hours = @ + users[u].monthly_permessi_hours]

\* Hours of a working day, the convention that turns the day span of a
\* vacation request into hours (8 h).
HoursPerDay == 16

\* Hours a request counts for: the hours field of a permit request, the day
\* span (both ends inclusive) of a vacation request.
HoursOf(a) ==
    IF a.absence_type = "permesso"
    THEN IF a.hours.t = "number" THEN a.hours.v ELSE 0
    ELSE (a.end_date - a.start_date + 1) * HoursPerDay

RECURSIVE SumHours(_, _, _, _, _)
\* sum of HoursOf over the requests ids of user u with the type and status
SumHours(absences, ids, u, type, status) ==
    IF ids = {} THEN 0
    ELSE LET id == CHOOSE x \in ids : TRUE
             a == absences[id]
             h == IF a.user_id = u /\ a.absence_type = type /\ a.status = status
                  THEN HoursOf(a) ELSE 0
         IN  h + SumHours(absences, ids \ {id}, u, type, status)

\* A mutant of computeBalance: rejected requests still count as pending.
computeBalanceCountingRejected(users, absences, u) ==
    LET ids == DOMAIN absences
        fu == SumHours(absences, ids, u, "ferie", "approved")
        fp == SumHours(absences, ids, u, "ferie", "pending")
              + SumHours(absences, ids, u, "ferie", "rejected")
        pu == SumHours(absences, ids, u, "permesso", "approved")
        pp == SumHours(absences, ids, u, "permesso", "pending")
              + SumHours(absences, ids, u, "permesso", "rejected")
    IN  [user_id |-> u,
         ferie_total |-> users[u].total_ferie_hours,
         ferie_used |-> fu, ferie_pending |-> fp,
         ferie_remaining |-> users[u].total_ferie_hours - fu - fp,
         permessi_total |-> users[u].total_permessi_hours,
         permessi_used |-> pu, permessi_pending |-> pp,
         permessi_remaining |-> users[u].total_permessi_hours - pu - pp,
         monthly_ferie_hours |-> users[u].monthly_ferie_hours,
         monthly_permessi_hours |-> users[u].monthly_permessi_hours]

\* computeBalance(userId): total, used, pending and remaining of both hour
\* categories.
computeBalance(users, absences, u) ==
    LET ids == DOMAIN absences
        fu == SumHours(absences, ids, u, "ferie", "approved")
        fp == SumHours(absences, ids, u, "ferie", "pending")
        pu == SumHours(absences, ids, u, "permesso", "approved")
        pp == SumHours(absences, ids, u, "permesso", "pending")
    IN  [user_id |-> u,
         ferie_total |-> users[u].total_ferie_hours,
         ferie_used |-> fu, ferie_pending |-> fp,
         ferie_remaining |-> users[u].total_ferie_hours - fu - fp,
         permessi_total |-> users[u].total_permessi_hours,
         permessi_used |-> pu, permessi_pending |-> pp,
         permessi_remaining |-> users[u].total_permessi_hours - pu - pp,
         monthly_ferie_hours |-> users[u].monthly_ferie_hours,
         monthly_permessi_hours |-> users[u].monthly_permessi_hours]

\* A mutant of listAllBalances: only the users that own a request are listed.
listAllBalancesOfRequesters(users, absences) ==
    [u \in {x \in DOMAIN users :
                \E a \in DOMAIN absences : absences[a].user_id = x} |->
        computeBalance(users, absences, u)]

\* listAllBalances(): computeBalance of every user.
listAllBalances(users, absences) ==
    [u \in DOMAIN users |-> computeBalance(users, absences, u)]

\* POST /users/{id}/add-hours
Server_addHours(i) ==
    /\ Sent(i) /\ calls[i].api = "addHoursToUser"
    /\ LET c == calls[i]
           r == adjustHours(db_users, c.id, c.body.hours_type, c.body.hours)
       IN  IF Authorized(c.caller, AdjustmentRoles) /\ r.ok
           THEN /\ db_users' = r.users
                /\ calls' = Respond(i, "ok", null)
                /\ ledger' = Logged([kind |-> "adjust", user |-> c.id,
                                     hours_type |-> c.body.hours_type,
                                     typed |-> c.closure.addHoursAmount,
                                     before |-> db_users[c.id][TotalKey(c.body.hours_type)],
                                     after |-> r.users[c.id][TotalKey(c.body.hours_type)]])
           ELSE /\ db_users' = db_users
                /\ calls' = Respond(i, "err", null)
                /\ ledger' = Logged([kind |-> "rejected", user |-> c.id])
    /\ UNCHANGED <<db_absences, currentUser, route, toast, opCount,
                   usersPage, dashboard, approvals, myRequests, settingsPage>>

\* POST /hours/monthly-accrual: the request is accepted and the users to go
\* through are read.
Server_accrualBegin(i) ==
    /\ Sent(i) /\ calls[i].api = "runMonthlyAccrual"
    /\ IF Authorized(calls[i].caller, AccrualRoles)
       THEN /\ calls' = [calls EXCEPT ![i].st = "running",
                                      ![i].cursor = DOMAIN db_users,
                                      ![i].data = Num(0)]
            /\ ledger' = Logged([kind |-> "begin", user |-> NoUser,
                                 users |-> db_users])
       ELSE /\ calls' = Respond(i, "err", null)
            /\ ledger' = ledger
    /\ UNCHANGED <<db_users, db_absences, currentUser, route, toast, opCount,
                   usersPage, dashboard, approvals, myRequests, settingsPage>>

\* One iteration of the accrual loop: the write for one user.
Server_accrualStep(i, u) ==
    /\ i \in 1..Len(calls) /\ calls[i].st = "running"
    /\ u \in calls[i].cursor
    /\ IF u \in DOMAIN db_users
       THEN /\ db_users' = accrueUser(db_users, u)
            /\ calls' = [calls EXCEPT ![i].cursor = @ \ {u},
                                      ![i].data = Num(@.v + 1)]
            /\ ledger' = Logged([kind |-> "accrual", user |-> u,
                                 rate |-> [ferie |-> db_users[u].monthly_ferie_hours,
                                           permessi |-> db_users[u].monthly_permessi_hours]])
       ELSE /\ db_users' = db_users
            /\ calls' = [calls EXCEPT ![i].cursor = @ \ {u}]
            /\ ledger' = ledger
    /\ UNCHANGED <<db_absences, currentUser, route, toast, opCount,
                   usersPage, dashboard, approvals, myRequests, settingsPage>>

\* The loop is through: the count of users updated is returned.
Server_accrualEnd(i) ==
    /\ i \in 1..Len(calls) /\ calls[i].st = "running"
    /\ calls[i].cursor = {}
    /\ calls' = [calls EXCEPT ![i].st = "ok"]
    /\ ledger' = Logged([kind |-> "run", user |-> NoUser])
    /\ UNCHANGED <<db_users, db_absences, currentUser, route, toast, opCount,
                   usersPage, dashboard, approvals, myRequests, settingsPage>>

\* The user documents as they were when the latest accrual run began.
RunStart ==
    LET begun == {k \in 1..Len(ledger.log) : ledger.log[k].kind = "begin"}
        last == CHOOSE k \in begun : \A m \in begun : m <= k
    IN  ledger.log[last].users

\* A mutant of Server_accrualInterrupt: the writes of the run are undone.
Server_accrualInterruptRollingBack(i) ==
    /\ i \in 1..Len(calls) /\ calls[i].st = "running"
    /\ calls[i].cursor # {}
    /\ db_users' = [u \in DOMAIN db_users |->
                       IF u \in DOMAIN RunStart THEN RunStart[u] ELSE db_users[u]]
    /\ calls' = [calls EXCEPT ![i].st = "err"]
    /\ ledger' = Logged([kind |-> "interrupted", user |-> NoUser])
    /\ UNCHANGED <<db_absences, currentUser, route, toast, opCount,
                   usersPage, dashboard, approvals, myRequests, settingsPage>>

\* The run is interrupted before the loop is through (the process stops, a
\* write fails): the call fails, and the writes made so far stay.
Server_accrualInterrupt(i) ==
    /\ i \in 1..Len(calls) /\ calls[i].st = "running"
    /\ calls[i].cursor # {}
    /\ calls' = [calls EXCEPT ![i].st = "err"]
    /\ ledger' = Logged([kind |-> "interrupted", user |-> NoUser])
    /\ UNCHANGED <<db_users, db_absences, currentUser, route, toast, opCount,
                   usersPage, dashboard, approvals, myRequests, settingsPage>>

\* DELETE /users/{id}: admin only; not-found when the user does not exist.
Server_deleteUser(i) ==
    /\ Sent(i) /\ calls[i].api = "deleteUser"
    /\ IF Authorized(calls[i].caller, {"admin"}) /\ calls[i].id \in DOMAIN db_users
       THEN /\ db_users' = Without(db_users, calls[i].id)
            /\ calls' = Respond(i, "ok", null)
       ELSE /\ db_users' = db_users
            /\ calls' = Respond(i, "err", null)
    /\ UNCHANGED <<db_absences, currentUser, route, toast, opCount,
                   ledger, usersPage, dashboard, approvals, myRequests,
                   settingsPage>>

\* Roles that may edit a user document.
EditRoles == {"admin", "ufficio_personale"}

\* PUT /users/{id}: the fields sent replace those of the user document; no
\* floor is put on the hours.
Server_updateUser(i) ==
    /\ Sent(i) /\ calls[i].api = "updateUser"
    /\ LET c == calls[i]
       IN  IF Authorized(c.caller, EditRoles) /\ c.id \in DOMAIN db_users
           THEN /\ db_users' = [db_users EXCEPT ![c.id] =
                      [role |-> c.body.role,
                       total_ferie_hours |-> c.body.total_ferie_hours.v,
                       total_permessi_hours |-> c.body.total_permessi_hours.v,
                       monthly_ferie_hours |-> c.body.monthly_ferie_hours.v,
                       monthly_permessi_hours |-> c.body.monthly_permessi_hours.v]]
                /\ calls' = Respond(i, "ok", null)
                /\ ledger' = Logged([kind |-> "update", user |-> c.id,
                                     before |-> db_users[c.id]])
           ELSE /\ db_users' = db_users
                /\ calls' = Respond(i, "err", null)
                /\ ledger' = ledger
    /\ UNCHANGED <<db_absences, currentUser, route, toast, opCount,
                   usersPage, dashboard, approvals, myRequests, settingsPage>>

\* The id given to a new user: the lowest one that is free.
NextUserId(users) == CHOOSE u \in UserIds \ DOMAIN users :
                        \A v \in UserIds \ DOMAIN users : u <= v

\* POST /auth/register: a user document with the role and the hours sent is
\* created; the request is refused when no further user can be stored.
Server_register(i) ==
    /\ Sent(i) /\ calls[i].api = "register"
    /\ LET c == calls[i]
       IN  IF UserIds \ DOMAIN db_users # {}
           THEN /\ db_users' =
                      [u \in DOMAIN db_users \cup {NextUserId(db_users)} |->
                          IF u \in DOMAIN db_users THEN db_users[u]
                          ELSE [role |-> c.body.role,
                                total_ferie_hours |-> c.body.total_ferie_hours.v,
                                total_permessi_hours |-> c.body.total_permessi_hours.v,
                                monthly_ferie_hours |-> c.body.monthly_ferie_hours.v,
                                monthly_permessi_hours |-> c.body.monthly_permessi_hours.v]]
                /\ calls' = Respond(i, "ok", null)
                /\ ledger' = Logged([kind |-> "register",
                                     user |-> NextUserId(db_users)])
           ELSE /\ db_users' = db_users
                /\ calls' = Respond(i, "err", null)
                /\ ledger' = ledger
    /\ UNCHANGED <<db_absences, currentUser, route, toast, opCount,
                   usersPage, dashboard, approvals, myRequests, settingsPage>>

\* GET /users and GET /balance/all, requests of a page's fetchData; each is
\* answered on its own.
Server_getUsers(i) ==
    /\ Sent(i) /\ "users" \in DOMAIN calls[i].data
    /\ calls[i].data.users.t = "pending"
    /\ calls' = [calls EXCEPT ![i].data.users =
                    IF Authorized(calls[i].caller, AdjustmentRoles)
                    THEN [t |-> "ok", v |-> db_users]
                    ELSE [t |-> "err", v |-> EmptyMap]]
    /\ UNCHANGED <<db_users, db_absences, currentUser, route, toast, opCount,
                   ledger, usersPage, dashboard, approvals, myRequests,
                   settingsPage>>

Server_getAllBalances(i) ==
    /\ Sent(i) /\ "balances" \in DOMAIN calls[i].data
    /\ calls[i].data.balances.t = "pending"
    /\ calls' = [calls EXCEPT ![i].data.balances =
                    IF Authorized(calls[i].caller, AdjustmentRoles)
                    THEN [t |-> "ok", v |-> listAllBalances(db_users, db_absences)]
                    ELSE [t |-> "err", v |-> EmptyMap]]
    /\ UNCHANGED <<db_users, db_absences, currentUser, route, toast, opCount,
                   ledger, usersPage, dashboard, approvals, myRequests,
                   settingsPage>>
\* Bounds of the hours of a permit request: 0.5 h and 8 h.
MinPermitHours == 1
MaxPermitHours == 16

\* Absence categories of a request.
AbsenceTypes == {"ferie", "permesso", "malattia"}

\* Roles that may decide a request (the "authorized approver").
ApproverRoles == {"admin", "manager"}

\* Id given to the next request: one above the highest id in the store.
NextAbsenceId(absences) ==
    IF DOMAIN absences = {} THEN 1
    ELSE 1 + CHOOSE m \in DOMAIN absences : \A x \in DOMAIN absences : x <= m

\* Validation of a new request: a known category, both dates given, and for a
\* permit request an hours quantity between 0.5 and 8.
ValidAbsence(body) ==
    /\ body.absence_type \in AbsenceTypes
    /\ body.start_date # NoDate /\ body.end_date # NoDate
    /\ body.absence_type = "permesso" =>
          /\ body.hours.t = "number"
          /\ body.hours.v >= MinPermitHours /\ body.hours.v <= MaxPermitHours

\* The request document stored for a valid body: owned by the caller, pending.
NewAbsence(caller, body) ==
    [user_id |-> caller, absence_type |-> body.absence_type,
     start_date |-> body.start_date, end_date |-> body.end_date,
     hours |-> body.hours, status |-> "pending", reason |-> ""]

\* POST /absences
Server_createAbsence(i) ==
    /\ Sent(i) /\ calls[i].api = "createAbsence"
    /\ LET c == calls[i]
       IN  IF c.caller \in DOMAIN db_users /\ ValidAbsence(c.body)
           THEN /\ db_absences' =
                      [id \in DOMAIN db_absences \cup {NextAbsenceId(db_absences)} |->
                          IF id \in DOMAIN db_absences THEN db_absences[id]
                          ELSE NewAbsence(c.caller, c.body)]
                /\ calls' = Respond(i, "ok", null)
           ELSE /\ db_absences' = db_absences
                /\ calls' = Respond(i, "err", null)
    /\ UNCHANGED <<db_users, currentUser, route, toast, opCount,
                   ledger, usersPage, dashboard, approvals, myRequests,
                   settingsPage>>

\* The status a decision gives a request.
DecidedStatus(action) == IF action = "approve" THEN "approved" ELSE "rejected"

\* PUT /absences/{id}/action: an approver decides a request.  A request that
\* is no longer pending is left as it is and the call answered with an error.
Server_absenceAction(i) ==
    /\ Sent(i) /\ calls[i].api = "handleAbsenceAction"
    /\ LET c == calls[i]
       IN  IF /\ Authorized(c.caller, ApproverRoles)
              /\ c.id \in DOMAIN db_absences
              /\ db_absences[c.id].status = "pending"
              /\ c.body.action \in {"approve", "reject"}
           THEN /\ db_absences' = [db_absences EXCEPT
                      ![c.id].status = DecidedStatus(c.body.action),
                      ![c.id].reason = IF c.body.action = "reject"
                                       THEN c.body.reason ELSE @]
                /\ calls' = Respond(i, "ok", null)
           ELSE /\ db_absences' = db_absences
                /\ calls' = Respond(i, "err", null)
    /\ UNCHANGED <<db_users, currentUser, route, toast, opCount,
                   ledger, usersPage, dashboard, approvals, myRequests,
                   settingsPage>>

\* The three GETs of the Dashboard's fetchData, each answered on its own:
\* GET /absences, GET /stats and GET /balance/me.
Server_getAbsences(i) ==
    /\ Sent(i) /\ "absences" \in DOMAIN calls[i].data
    /\ calls[i].data.absences.t = "pending"
    /\ calls' = [calls EXCEPT ![i].data.absences =
                    IF calls[i].caller \in DOMAIN db_users
                    THEN [t |-> "ok", v |-> db_absences]
                    ELSE [t |-> "err", v |-> EmptyMap]]
    /\ UNCHANGED <<db_users, db_absences, currentUser, route, toast, opCount,
                   ledger, usersPage, dashboard, approvals, myRequests,
                   settingsPage>>

\* The statistics: how many requests there are in each status.
Stats(absences) ==
    [s \in {"pending", "approved", "rejected"} |->
        Cardinality({id \in DOMAIN absences : absences[id].status = s})]

Server_getStats(i) ==
    /\ Sent(i) /\ "stats" \in DOMAIN calls[i].data
    /\ calls[i].data.stats.t = "pending"
    /\ calls' = [calls EXCEPT ![i].data.stats =
                    IF calls[i].caller \in DOMAIN db_users
                    THEN [t |-> "ok", v |-> Stats(db_absences)]
                    ELSE [t |-> "err", v |-> EmptyMap]]
    /\ UNCHANGED <<db_users, db_absences, currentUser, route, toast, opCount,
                   ledger, usersPage, dashboard, approvals, myRequests,
                   settingsPage>>

Server_getMyBalance(i) ==
    /\ Sent(i) /\ "balance" \in DOMAIN calls[i].data
    /\ calls[i].data.balance.t = "pending"
    /\ calls' = [calls EXCEPT ![i].data.balance =
                    IF calls[i].caller \in DOMAIN db_users
                    THEN [t |-> "ok",
                          v |-> computeBalance(db_users, db_absences, calls[i].caller)]
                    ELSE [t |-> "err", v |-> EmptyMap]]
    /\ UNCHANGED <<db_users, db_absences, currentUser, route, toast, opCount,
                   ledger, usersPage, dashboard, approvals, myRequests,
                   settingsPage>>

\* GET /absences/pending of the Approvals page's fetchData.
PendingOf(absences) ==
    [id \in {x \in DOMAIN absences : absences[x].status = "pending"} |-> absences[id]]

Server_getPendingAbsences(i) ==
    /\ Sent(i) /\ "pending" \in DOMAIN calls[i].data
    /\ calls[i].data.pending.t = "pending"
    /\ calls' = [calls EXCEPT ![i].data.pending =
                    IF Authorized(calls[i].caller, ApproverRoles)
                    THEN [t |-> "ok", v |-> PendingOf(db_absences)]
                    ELSE [t |-> "err", v |-> EmptyMap]]
    /\ UNCHANGED <<db_users, db_absences, currentUser, route, toast, opCount,
                   ledger, usersPage, dashboard, approvals, myRequests,
                   settingsPage>>

\* GET /absences/my: the requests the caller owns.
MyAbsencesOf(absences, u) ==
    [id \in {x \in DOMAIN absences : absences[x].user_id = u} |-> absences[id]]

Server_getMyAbsences(i) ==
    /\ Sent(i) /\ "mine" \in DOMAIN calls[i].data
    /\ calls[i].data.mine.t = "pending"
    /\ calls' = [calls EXCEPT ![i].data.mine =
                    IF calls[i].caller \in DOMAIN db_users
                    THEN [t |-> "ok",
                          v |-> MyAbsencesOf(db_absences, calls[i].caller)]
                    ELSE [t |-> "err", v |-> EmptyMap]]
    /\ UNCHANGED <<db_users, db_absences, currentUser, route, toast, opCount,
                   ledger, usersPage, dashboard, approvals, myRequests,
                   settingsPage>>

\* DELETE /absences/{id}: the owner removes a request that is still pending.
Server_deleteAbsence(i) ==
    /\ Sent(i) /\ calls[i].api = "deleteAbsence"
    /\ LET c == calls[i]
       IN  IF /\ c.caller \in DOMAIN db_users
              /\ c.id \in DOMAIN db_absences
              /\ db_absences[c.id].user_id = c.caller
              /\ db_absences[c.id].status = "pending"
           THEN /\ db_absences' = Without(db_absences, c.id)
                /\ calls' = Respond(i, "ok", null)
           ELSE /\ db_absences' = db_absences
                /\ calls' = Respond(i, "err", null)
    /\ UNCHANGED <<db_users, currentUser, route, toast, opCount,
                   ledger, usersPage, dashboard, approvals, myRequests,
                   settingsPage>>

\* The status override: an approver gives a request the status that is sent,
\* whatever its status was.
Server_changeStatus(i) ==
    /\ Sent(i) /\ calls[i].api = "changeAbsenceStatus"
    /\ LET c == calls[i]
       IN  IF /\ Authorized(c.caller, ApproverRoles)
              /\ c.id \in DOMAIN db_absences
           THEN /\ db_absences' = [db_absences EXCEPT
                      ![c.id].status = c.body.status,
                      ![c.id].reason = c.body.reason]
                /\ calls' = Respond(i, "ok", null)
           ELSE /\ db_absences' = db_absences
                /\ calls' = Respond(i, "err", null)
    /\ UNCHANGED <<db_users, currentUser, route, toast, opCount,
                   ledger, usersPage, dashboard, approvals, myRequests,
                   settingsPage>>

\* GET /settings: the company settings, read by every user.
CompanySettings == [company_name |-> "azienda"]

Server_getSettings(i) ==
    /\ Sent(i) /\ "settings" \in DOMAIN calls[i].data
    /\ calls[i].data.settings.t = "pending"
    /\ calls' = [calls EXCEPT ![i].data.settings =
                    IF calls[i].caller \in DOMAIN db_users
                    THEN [t |-> "ok", v |-> CompanySettings]
                    ELSE [t |-> "err", v |-> EmptyMap]]
    /\ UNCHANGED <<db_users, db_absences, currentUser, route, toast, opCount,
                   ledger, usersPage, dashboard, approvals, myRequests,
                   settingsPage>>

-----------------------------------------------------------------------------
(* Routing: App.js *)

AllRoles == {"admin", "manager", "employee", "ufficio_personale"}

\* A mutant of AllowedRoles: no route is given allowedRoles.
AllowedRolesOpen(path) == AllRoles

\* allowedRoles of the ProtectedRoute around a page (every role when the
\* route is given none).
AllowedRoles(path) ==
    CASE path = "/approvals" -> {"admin", "manager"}
      [] path = "/users" -> {"admin"}
      [] path = "/settings" -> {"admin"}
      [] OTHER -> AllRoles

\* A mutant of ProtectedRoute: allowedRoles is not looked at.
ProtectedRouteSessionOnly(path, user) ==
    IF user.user_id = NoUser THEN "/login" ELSE path

\* ProtectedRoute: where the router ends up for a path and a session user.
ProtectedRoute(path, user) ==
    IF user.user_id = NoUser THEN "/login"
    ELSE IF user.role \notin AllowedRoles(path) THEN "/"
    ELSE path

-----------------------------------------------------------------------------
(* Users page *)

\* The new-user form as constructed and as reset after a user was created;
\* filled stands for the four required text fields (email, password, first
\* and last name) being all given.
NewUserInit ==
    [filled |-> FALSE, role |-> "employee",
     total_ferie_hours |-> 0, total_permessi_hours |-> 0,
     monthly_ferie_hours |-> 0, monthly_permessi_hours |-> 0]

UsersPageInit ==
    [users |-> EmptyMap, balances |-> EmptyMap, loading |-> TRUE,
     hoursDialog |-> [open |-> FALSE, user |-> NoUser],
     addHoursType |-> "ferie", addHoursAmount |-> <<>>,
     saving |-> FALSE, deleting |-> NoUser,
     editDialog |-> [open |-> FALSE, user |-> NoUser, doc |-> null],
     editRole |-> "",
     editFerieTotal |-> <<>>, editPermessiTotal |-> <<>>,
     editFerieMonthly |-> <<>>, editPermessiMonthly |-> <<>>,
     addDialog |-> FALSE, newUser |-> NewUserInit]

\* Text a user types into the "Ore da aggiungere" input.
AmountInputs == {<<>>, <<"8">>, <<"-", "8">>, <<"x">>}

canManageHours == currentUser.role \in {"admin", "manager", "ufficio_personale"}
canRunAccrual == currentUser.role \in {"admin", "ufficio_personale"}

\* The Users component is mounted and past its loading spinner.
UsersRendered ==
    /\ route = "/users"
    /\ ProtectedRoute("/users", currentUser) = "/users"
    /\ ~usersPage.loading

\* No modal dialog covers the page.
UsersNoDialog ==
    /\ ~usersPage.hoursDialog.open
    /\ ~usersPage.editDialog.open
    /\ ~usersPage.addDialog

Users_fetchDataCall ==
    [Call("Users.fetchData", "getUsers+getAllBalances", NoUser, null, null)
        EXCEPT !.data = [users |-> [t |-> "pending", v |-> EmptyMap],
                         balances |-> [t |-> "pending", v |-> EmptyMap]]]

\* fetchData after Promise.all has settled: it rejects as soon as getUsers
\* fails; a failure of getAllBalances is caught and yields an empty list.
Users_fetchData_done(i) ==
    /\ i \in 1..Len(calls) /\ calls[i].handler = "Users.fetchData"
    /\ LET d == calls[i].data
       IN  /\ \/ d.users.t = "err"
              \/ d.users.t = "ok" /\ d.balances.t # "pending"
           /\ IF d.users.t = "ok"
              THEN /\ usersPage' = [usersPage EXCEPT
                        !.users = d.users.v,
                        !.balances = d.balances.v,
                        !.loading = FALSE]
                   /\ toast' = toast
              ELSE /\ usersPage' = [usersPage EXCEPT !.loading = FALSE]
                   /\ toast' = Toast("error", "Errore nel caricamento dei dati")
    /\ calls' = RemoveAt(calls, i)
    /\ UNCHANGED <<db_users, db_absences, currentUser, route, opCount,
                   ledger, dashboard, approvals, myRequests, settingsPage>>

openHoursDialog(u) ==
    /\ UsersRendered /\ UsersNoDialog /\ canManageHours
    /\ u \in DOMAIN usersPage.users
    /\ usersPage' = [usersPage EXCEPT
            !.addHoursType = "ferie",
            !.addHoursAmount = <<>>,
            !.hoursDialog = [open |-> TRUE, user |-> u]]
    /\ UNCHANGED <<db_users, db_absences, currentUser, route, calls, toast,
                   opCount, ledger, dashboard, approvals, myRequests,
                   settingsPage>>

closeHoursDialog ==
    /\ UsersRendered /\ usersPage.hoursDialog.open
    /\ usersPage' = [usersPage EXCEPT
            !.hoursDialog = [open |-> FALSE, user |-> NoUser]]
    /\ UNCHANGED <<db_users, db_absences, currentUser, route, calls, toast,
                   opCount, ledger, dashboard, approvals, myRequests,
                   settingsPage>>

setAddHoursType(t) ==
    /\ UsersRendered /\ usersPage.hoursDialog.open
    /\ t \in {"ferie", "permessi"} /\ t # usersPage.addHoursType
    /\ usersPage' = [usersPage EXCEPT !.addHoursType = t]
    /\ UNCHANGED <<db_users, db_absences, currentUser, route, calls, toast,
                   opCount, ledger, dashboard, approvals, myRequests,
                   settingsPage>>

setAddHoursAmount(s) ==
    /\ UsersRendered /\ usersPage.hoursDialog.open
    /\ s \in AmountInputs /\ s # usersPage.addHoursAmount
    /\ usersPage' = [usersPage EXCEPT !.addHoursAmount = s]
    /\ UNCHANGED <<db_users, db_absences, currentUser, route, calls, toast,
                   opCount, ledger, dashboard, approvals, myRequests,
                   settingsPage>>

\* A mutant of AddHoursBody: the magnitude of the amount is sent.
AddHoursBodyMagnitude(user_id, type, amount) ==
    LET h == ParseFloat(amount)
    IN  [user_id |-> user_id, hours_type |-> type,
         hours |-> ToJSON(IF h.t = "number" /\ h.v < 0 THEN Num(0 - h.v) ELSE h)]

\* A mutant of AddHoursBody: the other hours type is sent.
AddHoursBodyOtherType(user_id, type, amount) ==
    [user_id |-> user_id,
     hours_type |-> IF type = "ferie" THEN "permessi" ELSE "ferie",
     hours |-> ToJSON(ParseFloat(amount))]

\* A mutant of AddHoursBody: the hours type is not taken from the select.
AddHoursBodyFerieOnly(user_id, type, amount) ==
    [user_id |-> user_id, hours_type |-> "ferie",
     hours |-> ToJSON(ParseFloat(amount))]

\* The request body handleAddHours sends.
AddHoursBody(user_id, type, amount) ==
    [user_id |-> user_id, hours_type |-> type,
     hours |-> ToJSON(ParseFloat(amount))]

\* A mutant of handleAddHours: a negative amount is refused with a toast.
handleAddHoursNonNegative ==
    /\ UsersRendered /\ usersPage.hoursDialog.open
    /\ ~(usersPage.saving \/ Falsy(usersPage.addHoursAmount))
    /\ opCount < MaxOps /\ Len(calls) < MaxCalls
    /\ IF usersPage.hoursDialog.user = NoUser \/ Falsy(usersPage.addHoursAmount)
       THEN UNCHANGED <<usersPage, calls, opCount, toast>>
       ELSE IF ParseFloat(usersPage.addHoursAmount).v < 0
       THEN /\ toast' = Toast("error", "Le ore non possono essere negative")
            /\ UNCHANGED <<usersPage, calls, opCount>>
       ELSE /\ usersPage' = [usersPage EXCEPT !.saving = TRUE]
            /\ calls' = Append(calls,
                  Call("handleAddHours", "addHoursToUser",
                       usersPage.hoursDialog.user,
                       AddHoursBody(usersPage.hoursDialog.user,
                                    usersPage.addHoursType,
                                    usersPage.addHoursAmount),
                       [hoursDialog |-> usersPage.hoursDialog,
                        addHoursAmount |-> usersPage.addHoursAmount,
                        addHoursType |-> usersPage.addHoursType]))
            /\ opCount' = opCount + 1
            /\ toast' = toast
    /\ UNCHANGED <<db_users, db_absences, currentUser, route,
                   ledger, dashboard, approvals, myRequests, settingsPage>>

\* handleAddHours up to its await (the "Aggiungi" button is disabled while
\* saving or while the amount is empty).
handleAddHours ==
    /\ UsersRendered /\ usersPage.hoursDialog.open
    /\ ~(usersPage.saving \/ Falsy(usersPage.addHoursAmount))
    /\ opCount < MaxOps /\ Len(calls) < MaxCalls
    /\ IF usersPage.hoursDialog.user = NoUser \/ Falsy(usersPage.addHoursAmount)
       THEN UNCHANGED <<usersPage, calls, opCount>>
       ELSE /\ usersPage' = [usersPage EXCEPT !.saving = TRUE]
            /\ calls' = Append(calls,
                  Call("handleAddHours", "addHoursToUser",
                       usersPage.hoursDialog.user,
                       AddHoursBody(usersPage.hoursDialog.user,
                                    usersPage.addHoursType,
                                    usersPage.addHoursAmount),
                       [hoursDialog |-> usersPage.hoursDialog,
                        addHoursAmount |-> usersPage.addHoursAmount,
                        addHoursType |-> usersPage.addHoursType]))
            /\ opCount' = opCount + 1
    /\ UNCHANGED <<db_users, db_absences, currentUser, route, toast,
                   ledger, dashboard, approvals, myRequests, settingsPage>>

\* A mutant of handleAddHours_done: saving is cleared on success only.
handleAddHours_doneNoFinally(i) ==
    /\ Settled(i) /\ calls[i].handler = "handleAddHours"
    /\ IF calls[i].st = "ok"
       THEN /\ toast' = Toast("success", "Aggiunte ore")
            /\ usersPage' = [usersPage EXCEPT
                    !.hoursDialog = [open |-> FALSE, user |-> NoUser],
                    !.saving = FALSE]
            /\ calls' = Append(RemoveAt(calls, i), Users_fetchDataCall)
       ELSE /\ toast' = Toast("error", "Errore nell'aggiunta ore")
            /\ usersPage' = usersPage
            /\ calls' = RemoveAt(calls, i)
    /\ UNCHANGED <<db_users, db_absences, currentUser, route, opCount,
                   ledger, dashboard, approvals, myRequests, settingsPage>>

\* handleAddHours after its await: on success the toast, the dialog closed
\* and fetchData() started; on failure the error toast; saving cleared in
\* both cases.
handleAddHours_done(i) ==
    /\ Settled(i) /\ calls[i].handler = "handleAddHours"
    /\ IF calls[i].st = "ok"
       THEN /\ toast' = Toast("success", "Aggiunte ore")
            /\ usersPage' = [usersPage EXCEPT
                    !.hoursDialog = [open |-> FALSE, user |-> NoUser],
                    !.saving = FALSE]
            /\ calls' = Append(RemoveAt(calls, i), Users_fetchDataCall)
       ELSE /\ toast' = Toast("error", "Errore nell'aggiunta ore")
            /\ usersPage' = [usersPage EXCEPT !.saving = FALSE]
            /\ calls' = RemoveAt(calls, i)
    /\ UNCHANGED <<db_users, db_absences, currentUser, route, opCount,
                   ledger, dashboard, approvals, myRequests, settingsPage>>

\* A mutant of handleMonthlyAccrual: the button is offered to every logged-in
\* user on every page.
handleMonthlyAccrualUngated ==
    /\ currentUser.user_id # NoUser
    /\ ~usersPage.saving
    /\ opCount < MaxOps /\ Len(calls) < MaxCalls
    /\ usersPage' = [usersPage EXCEPT !.saving = TRUE]
    /\ calls' = Append(calls,
          Call("handleMonthlyAccrual", "runMonthlyAccrual", NoUser, null, null))
    /\ opCount' = opCount + 1
    /\ UNCHANGED <<db_users, db_absences, currentUser, route, toast,
                   ledger, dashboard, approvals, myRequests, settingsPage>>

\* handleMonthlyAccrual up to its await, the confirm() answered with OK.
handleMonthlyAccrual ==
    /\ UsersRendered /\ UsersNoDialog /\ canRunAccrual
    /\ ~usersPage.saving
    /\ opCount < MaxOps /\ Len(calls) < MaxCalls
    /\ usersPage' = [usersPage EXCEPT !.saving = TRUE]
    /\ calls' = Append(calls,
          Call("handleMonthlyAccrual", "runMonthlyAccrual", NoUser, null, null))
    /\ opCount' = opCount + 1
    /\ UNCHANGED <<db_users, db_absences, currentUser, route, toast,
                   ledger, dashboard, approvals, myRequests, settingsPage>>

handleMonthlyAccrual_done(i) ==
    /\ Settled(i) /\ calls[i].handler = "handleMonthlyAccrual"
    /\ IF calls[i].st = "ok"
       THEN /\ toast' = Toast("success", "response.data.message")
            /\ calls' = Append(RemoveAt(calls, i), Users_fetchDataCall)
       ELSE /\ toast' = Toast("error", "Errore nella maturazione mensile")
            /\ calls' = RemoveAt(calls, i)
    /\ usersPage' = [usersPage EXCEPT !.saving = FALSE]
    /\ UNCHANGED <<db_users, db_absences, currentUser, route, opCount,
                   ledger, dashboard, approvals, myRequests, settingsPage>>

\* A mutant of Users_handleDelete: the button is shown on every row.
Users_handleDeleteOnEveryRow(u) ==
    /\ UsersRendered /\ UsersNoDialog
    /\ u \in DOMAIN usersPage.users
    /\ opCount < MaxOps /\ Len(calls) < MaxCalls
    /\ usersPage' = [usersPage EXCEPT !.deleting = u]
    /\ calls' = Append(calls,
          Call("Users.handleDelete", "deleteUser", u, null, usersPage.users))
    /\ opCount' = opCount + 1
    /\ UNCHANGED <<db_users, db_absences, currentUser, route, toast,
                   ledger, dashboard, approvals, myRequests, settingsPage>>

\* handleDelete (Users) up to its await; the button is shown to an admin on
\* every row but their own.
Users_handleDelete(u) ==
    /\ UsersRendered /\ UsersNoDialog
    /\ u \in DOMAIN usersPage.users
    /\ u # currentUser.user_id /\ currentUser.role = "admin"
    /\ opCount < MaxOps /\ Len(calls) < MaxCalls
    /\ usersPage' = [usersPage EXCEPT !.deleting = u]
    /\ calls' = Append(calls,
          Call("Users.handleDelete", "deleteUser", u, null, usersPage.users))
    /\ opCount' = opCount + 1
    /\ UNCHANGED <<db_users, db_absences, currentUser, route, toast,
                   ledger, dashboard, approvals, myRequests, settingsPage>>

\* handleDelete (Users) after its await: the row is filtered out of the
\* users list the handler's closure holds.
Users_handleDelete_done(i) ==
    /\ Settled(i) /\ calls[i].handler = "Users.handleDelete"
    /\ IF calls[i].st = "ok"
       THEN /\ toast' = Toast("success", "Utente eliminato")
            /\ usersPage' = [usersPage EXCEPT
                    !.users = Without(calls[i].closure, calls[i].id),
                    !.deleting = NoUser]
       ELSE /\ toast' = Toast("error", "Errore nell'eliminazione")
            /\ usersPage' = [usersPage EXCEPT !.deleting = NoUser]
    /\ calls' = RemoveAt(calls, i)
    /\ UNCHANGED <<db_users, db_absences, currentUser, route, opCount,
                   ledger, dashboard, approvals, myRequests, settingsPage>>

\* The edit dialog closed: setEditDialog({ open: false, user: null }).
EditDialogClosed == [open |-> FALSE, user |-> NoUser, doc |-> null]

\* Text a user types into an hours input of the edit or the new-user dialog
\* (type="number" with no min: the value is a number, of either sign, or
\* empty).
EditInputs == {<<>>, <<"8">>, <<"-", "8">>}

\* openEditDialog(user): the fields are filled from the user object of the
\* list the page holds, and the dialog keeps that object (user is its
\* user_id, doc the object).  The fallback "0" is for a field that is
\* missing; every user document here has all four.
openEditDialog(u) ==
    /\ UsersRendered /\ UsersNoDialog
    /\ u \in DOMAIN usersPage.users
    /\ usersPage' = [usersPage EXCEPT
            !.editRole = usersPage.users[u].role,
            !.editFerieTotal = NumberToString(usersPage.users[u].total_ferie_hours),
            !.editPermessiTotal = NumberToString(usersPage.users[u].total_permessi_hours),
            !.editFerieMonthly = NumberToString(usersPage.users[u].monthly_ferie_hours),
            !.editPermessiMonthly = NumberToString(usersPage.users[u].monthly_permessi_hours),
            !.editDialog = [open |-> TRUE, user |-> u, doc |-> usersPage.users[u]]]
    /\ UNCHANGED <<db_users, db_absences, currentUser, route, calls, toast,
                   opCount, ledger, dashboard, approvals, myRequests,
                   settingsPage>>

\* "Annulla" and closing the dialog otherwise (onOpenChange).
closeEditDialog ==
    /\ UsersRendered /\ usersPage.editDialog.open
    /\ usersPage' = [usersPage EXCEPT !.editDialog = EditDialogClosed]
    /\ UNCHANGED <<db_users, db_absences, currentUser, route, calls, toast,
                   opCount, ledger, dashboard, approvals, myRequests,
                   settingsPage>>

setEditFerieTotal(s) ==
    /\ UsersRendered /\ usersPage.editDialog.open
    /\ s \in EditInputs /\ s # usersPage.editFerieTotal
    /\ usersPage' = [usersPage EXCEPT !.editFerieTotal = s]
    /\ UNCHANGED <<db_users, db_absences, currentUser, route, calls, toast,
                   opCount, ledger, dashboard, approvals, myRequests,
                   settingsPage>>

setEditPermessiTotal(s) ==
    /\ UsersRendered /\ usersPage.editDialog.open
    /\ s \in EditInputs /\ s # usersPage.editPermessiTotal
    /\ usersPage' = [usersPage EXCEPT !.editPermessiTotal = s]
    /\ UNCHANGED <<db_users, db_absences, currentUser, route, calls, toast,
                   opCount, ledger, dashboard, approvals, myRequests,
                   settingsPage>>

setEditFerieMonthly(s) ==
    /\ UsersRendered /\ usersPage.editDialog.open
    /\ s \in EditInputs /\ s # usersPage.editFerieMonthly
    /\ usersPage' = [usersPage EXCEPT !.editFerieMonthly = s]
    /\ UNCHANGED <<db_users, db_absences, currentUser, route, calls, toast,
                   opCount, ledger, dashboard, approvals, myRequests,
                   settingsPage>>

setEditPermessiMonthly(s) ==
    /\ UsersRendered /\ usersPage.editDialog.open
    /\ s \in EditInputs /\ s # usersPage.editPermessiMonthly
    /\ usersPage' = [usersPage EXCEPT !.editPermessiMonthly = s]
    /\ UNCHANGED <<db_users, db_absences, currentUser, route, calls, toast,
                   opCount, ledger, dashboard, approvals, myRequests,
                   settingsPage>>

\* updateData of handleSave (the manager reference is left out).
UpdateData ==
    [role |-> usersPage.editRole,
     total_ferie_hours |-> Num(ParseFloatOrZero(usersPage.editFerieTotal)),
     total_permessi_hours |-> Num(ParseFloatOrZero(usersPage.editPermessiTotal)),
     monthly_ferie_hours |-> Num(ParseFloatOrZero(usersPage.editFerieMonthly)),
     monthly_permessi_hours |-> Num(ParseFloatOrZero(usersPage.editPermessiMonthly))]

\* handleSave up to its await ("Salva" is disabled while saving); the closure
\* holds the dialog and the fields of the render it was clicked in.
handleSave ==
    /\ UsersRendered /\ usersPage.editDialog.open
    /\ ~usersPage.saving
    /\ opCount < MaxOps /\ Len(calls) < MaxCalls
    /\ IF usersPage.editDialog.user = NoUser
       THEN UNCHANGED <<usersPage, calls, opCount>>
       ELSE /\ usersPage' = [usersPage EXCEPT !.saving = TRUE]
            /\ calls' = Append(calls,
                  Call("handleSave", "updateUser", usersPage.editDialog.user,
                       UpdateData,
                       [editDialog |-> usersPage.editDialog,
                        editFerieTotal |-> usersPage.editFerieTotal,
                        editPermessiTotal |-> usersPage.editPermessiTotal,
                        editFerieMonthly |-> usersPage.editFerieMonthly,
                        editPermessiMonthly |-> usersPage.editPermessiMonthly]))
            /\ opCount' = opCount + 1
    /\ UNCHANGED <<db_users, db_absences, currentUser, route, toast,
                   ledger, dashboard, approvals, myRequests, settingsPage>>

\* handleSave after its await: on success the toast, the dialog closed and
\* fetchData() started; on failure the error toast; saving cleared in both
\* cases.
handleSave_done(i) ==
    /\ Settled(i) /\ calls[i].handler = "handleSave"
    /\ IF calls[i].st = "ok"
       THEN /\ toast' = Toast("success", "Utente aggiornato!")
            /\ usersPage' = [usersPage EXCEPT
                    !.editDialog = EditDialogClosed, !.saving = FALSE]
            /\ calls' = Append(RemoveAt(calls, i), Users_fetchDataCall)
       ELSE /\ toast' = Toast("error", "Errore nell'aggiornamento")
            /\ usersPage' = [usersPage EXCEPT !.saving = FALSE]
            /\ calls' = RemoveAt(calls, i)
    /\ UNCHANGED <<db_users, db_absences, currentUser, route, opCount,
                   ledger, dashboard, approvals, myRequests, settingsPage>>

\* "Aggiungi Utente" opens the new-user dialog; "Annulla" and onOpenChange
\* close it, the form keeping its values.
setAddDialog(open) ==
    /\ UsersRendered
    /\ IF open THEN UsersNoDialog ELSE usersPage.addDialog
    /\ usersPage' = [usersPage EXCEPT !.addDialog = open]
    /\ UNCHANGED <<db_users, db_absences, currentUser, route, calls, toast,
                   opCount, ledger, dashboard, approvals, myRequests,
                   settingsPage>>

\* The four required text fields of the new-user form are typed in.
setNewUserIdentity ==
    /\ UsersRendered /\ usersPage.addDialog
    /\ ~usersPage.newUser.filled
    /\ usersPage' = [usersPage EXCEPT !.newUser.filled = TRUE]
    /\ UNCHANGED <<db_users, db_absences, currentUser, route, calls, toast,
                   opCount, ledger, dashboard, approvals, myRequests,
                   settingsPage>>

\* The names of the four hours fields of a user document.
HoursFields ==
    {"total_ferie_hours", "total_permessi_hours",
     "monthly_ferie_hours", "monthly_permessi_hours"}

\* onChange of an hours input of the new-user form: the form keeps
\* parseFloat(e.target.value) || 0.
setNewUserHours(field, s) ==
    /\ UsersRendered /\ usersPage.addDialog
    /\ field \in HoursFields /\ s \in EditInputs
    /\ usersPage.newUser[field] # ParseFloatOrZero(s)
    /\ usersPage' = [usersPage EXCEPT !.newUser[field] = ParseFloatOrZero(s)]
    /\ UNCHANGED <<db_users, db_absences, currentUser, route, calls, toast,
                   opCount, ledger, dashboard, approvals, myRequests,
                   settingsPage>>

\* userData of handleAddUser: parseFloat(n) || 0 of a number n the form
\* keeps is n (the identity fields and the manager reference are left out).
UserData ==
    [role |-> usersPage.newUser.role,
     total_ferie_hours |->
        Num(ParseFloatOrZero(NumberToString(usersPage.newUser.total_ferie_hours))),
     total_permessi_hours |->
        Num(ParseFloatOrZero(NumberToString(usersPage.newUser.total_permessi_hours))),
     monthly_ferie_hours |->
        Num(ParseFloatOrZero(NumberToString(usersPage.newUser.monthly_ferie_hours))),
     monthly_permessi_hours |->
        Num(ParseFloatOrZero(NumberToString(usersPage.newUser.monthly_permessi_hours)))]

\* handleAddUser up to its await ("Crea Utente" is disabled while saving): a
\* form with a required field left empty is refused with a toast.
handleAddUser ==
    /\ UsersRendered /\ usersPage.addDialog
    /\ ~usersPage.saving
    /\ opCount < MaxOps /\ Len(calls) < MaxCalls
    /\ IF ~usersPage.newUser.filled
       THEN /\ toast' = Toast("error", "Compila tutti i campi obbligatori")
            /\ UNCHANGED <<usersPage, calls, opCount>>
       ELSE /\ usersPage' = [usersPage EXCEPT !.saving = TRUE]
            /\ calls' = Append(calls,
                  Call("handleAddUser", "register", NoUser, UserData, null))
            /\ opCount' = opCount + 1
            /\ toast' = toast
    /\ UNCHANGED <<db_users, db_absences, currentUser, route,
                   ledger, dashboard, approvals, myRequests, settingsPage>>

\* handleAddUser after its await: on success the toast, the dialog closed,
\* the form reset and fetchData() started; on failure the error toast; saving
\* cleared in both cases.
handleAddUser_done(i) ==
    /\ Settled(i) /\ calls[i].handler = "handleAddUser"
    /\ IF calls[i].st = "ok"
       THEN /\ toast' = Toast("success", "Utente creato con successo!")
            /\ usersPage' = [usersPage EXCEPT
                    !.addDialog = FALSE, !.newUser = NewUserInit,
                    !.saving = FALSE]
            /\ calls' = Append(RemoveAt(calls, i), Users_fetchDataCall)
       ELSE /\ toast' = Toast("error", "Errore nella creazione dell'utente")
            /\ usersPage' = [usersPage EXCEPT !.saving = FALSE]
            /\ calls' = RemoveAt(calls, i)
    /\ UNCHANGED <<db_users, db_absences, currentUser, route, opCount,
                   ledger, dashboard, approvals, myRequests, settingsPage>>

-----------------------------------------------------------------------------
(* Dashboard page *)

\* A Date: a calendar day and the time of the day, 0 for midnight (the start
\* of the day) and 1 for a later instant of the day.
NewDate(day, time) == [day |-> day, time |-> time]

\* Times of the day.
Times == {0, 1}

\* parseISO of a date string "yyyy-MM-dd": midnight of that day.
parseISO(d) == NewDate(d, 0)

\* x is not after y.
NotAfter(x, y) == x.day < y.day \/ (x.day = y.day /\ x.time <= y.time)

\* isWithinInterval(date, { start, end }) of date-fns: start <= date <= end
\* as instants (an interval with start after end throws, which the caller
\* catches and takes as false).
isWithinInterval(date, start, end) ==
    NotAfter(start, date) /\ NotAfter(date, end)

\* eachDayOfInterval({ start, end }) of date-fns: the days from the day of
\* start to the day of end (none, the caller catching the throw, when start
\* is after end).
eachDayOfInterval(start, end) ==
    {d \in Days : start.day <= d /\ d <= end.day}

\* The Dashboard as constructed; selectedDate is new Date(), the instant of
\* the mount, here in the course of day 1 unless a specification sets the
\* clock.
DashboardInit ==
    [absences |-> EmptyMap, stats |-> null, balance |-> null, loading |-> TRUE,
     dialogOpen |-> FALSE, submitting |-> FALSE,
     absenceType |-> "", startDate |-> NoDate, endDate |-> NoDate,
     hours |-> <<>>,
     selectedDate |-> NewDate(1, 1),
     filterFerie |-> TRUE, filterPermesso |-> TRUE, filterMalattia |-> TRUE,
     filterStatus |-> "approved"]

\* Text a user types into the "Ore di permesso" input (type="number": the
\* value of the input is a valid number or empty).
HoursInputs == {<<>>, <<"0">>, <<"0", ".", "5">>, <<"8">>, <<"8", ".", "5">>}

\* The Dashboard component is mounted and past its loading spinner.
DashboardRendered ==
    /\ route = "/"
    /\ ProtectedRoute("/", currentUser) = "/"
    /\ ~dashboard.loading

Dashboard_fetchDataCall ==
    [Call("Dashboard.fetchData", "getAbsences+getStats+getMyBalance",
          NoUser, null, null)
        EXCEPT !.data = [absences |-> [t |-> "pending", v |-> EmptyMap],
                         stats |-> [t |-> "pending", v |-> EmptyMap],
                         balance |-> [t |-> "pending", v |-> EmptyMap]]]

\* fetchData after Promise.all has settled: it rejects as soon as one of the
\* three requests fails and resolves when all three have succeeded.
Dashboard_fetchData_done(i) ==
    /\ i \in 1..Len(calls) /\ calls[i].handler = "Dashboard.fetchData"
    /\ LET d == calls[i].data
           failed == "err" \in {d.absences.t, d.stats.t, d.balance.t}
       IN  /\ failed \/ {d.absences.t, d.stats.t, d.balance.t} = {"ok"}
           /\ IF failed
              THEN /\ dashboard' = [dashboard EXCEPT !.loading = FALSE]
                   /\ toast' = Toast("error", "Errore nel caricamento dei dati")
              ELSE /\ dashboard' = [dashboard EXCEPT
                        !.absences = d.absences.v,
                        !.stats = d.stats.v,
                        !.balance = d.balance.v,
                        !.loading = FALSE]
                   /\ toast' = toast
    /\ calls' = RemoveAt(calls, i)
    /\ UNCHANGED <<db_users, db_absences, currentUser, route, opCount,
                   ledger, usersPage, approvals, myRequests, settingsPage>>

\* A day of the calendar is clicked: onSelect passes midnight of the day;
\* a click on the day that is selected passes undefined, which is ignored.
setSelectedDate(d) ==
    /\ DashboardRendered /\ ~dashboard.dialogOpen
    /\ d \in Days /\ d # dashboard.selectedDate.day
    /\ dashboard' = [dashboard EXCEPT !.selectedDate = NewDate(d, 0)]
    /\ UNCHANGED <<db_users, db_absences, currentUser, route, calls, toast,
                   opCount, ledger, usersPage, approvals, myRequests,
                   settingsPage>>

\* The items of the status filter.
FilterStatuses == {"all", "approved", "pending", "rejected"}

setFilterStatus(st) ==
    /\ DashboardRendered /\ ~dashboard.dialogOpen
    /\ st \in FilterStatuses /\ st # dashboard.filterStatus
    /\ dashboard' = [dashboard EXCEPT !.filterStatus = st]
    /\ UNCHANGED <<db_users, db_absences, currentUser, route, calls, toast,
                   opCount, ledger, usersPage, approvals, myRequests,
                   settingsPage>>

setFilterFerie(checked) ==
    /\ DashboardRendered /\ ~dashboard.dialogOpen
    /\ checked \in BOOLEAN /\ checked # dashboard.filterFerie
    /\ dashboard' = [dashboard EXCEPT !.filterFerie = checked]
    /\ UNCHANGED <<db_users, db_absences, currentUser, route, calls, toast,
                   opCount, ledger, usersPage, approvals, myRequests,
                   settingsPage>>

setFilterPermesso(checked) ==
    /\ DashboardRendered /\ ~dashboard.dialogOpen
    /\ checked \in BOOLEAN /\ checked # dashboard.filterPermesso
    /\ dashboard' = [dashboard EXCEPT !.filterPermesso = checked]
    /\ UNCHANGED <<db_users, db_absences, currentUser, route, calls, toast,
                   opCount, ledger, usersPage, approvals, myRequests,
                   settingsPage>>

setFilterMalattia(checked) ==
    /\ DashboardRendered /\ ~dashboard.dialogOpen
    /\ checked \in BOOLEAN /\ checked # dashboard.filterMalattia
    /\ dashboard' = [dashboard EXCEPT !.filterMalattia = checked]
    /\ UNCHANGED <<db_users, db_absences, currentUser, route, calls, toast,
                   opCount, ledger, usersPage, approvals, myRequests,
                   settingsPage>>

\* filteredAbsences: the requests of the list that pass the filters.
filteredAbsences ==
    {a \in DOMAIN dashboard.absences :
        LET r == dashboard.absences[a]
        IN  /\ dashboard.filterStatus # "all" => r.status = dashboard.filterStatus
            /\ r.absence_type = "ferie" => dashboard.filterFerie
            /\ r.absence_type = "permesso" => dashboard.filterPermesso
            /\ r.absence_type = "malattia" => dashboard.filterMalattia}

\* absenceDays: for each day the filtered requests the calendar marks it for.
absenceDays ==
    [d \in Days |->
        {a \in filteredAbsences :
            d \in eachDayOfInterval(parseISO(dashboard.absences[a].start_date),
                                    parseISO(dashboard.absences[a].end_date))}]

\* selectedDateAbsences: the filtered requests listed for the selected date.
selectedDateAbsences ==
    {a \in filteredAbsences :
        isWithinInterval(dashboard.selectedDate,
                         parseISO(dashboard.absences[a].start_date),
                         parseISO(dashboard.absences[a].end_date))}

\* The outcome of the latest click on "Invia Richiesta", forgotten when the
\* form is edited or the dialog opened or closed.
Submitted(outcome) == [ledger EXCEPT !.submit = outcome]

\* "Nuova Richiesta" opens the dialog; the dialog is closed from its close
\* button (onOpenChange), the fields keeping their values.
setDialogOpen(open) ==
    /\ DashboardRendered /\ dashboard.dialogOpen # open
    /\ dashboard' = [dashboard EXCEPT !.dialogOpen = open]
    /\ ledger' = Submitted("none")
    /\ UNCHANGED <<db_users, db_absences, currentUser, route, calls, toast,
                   opCount, usersPage, approvals, myRequests, settingsPage>>

setAbsenceType(t) ==
    /\ DashboardRendered /\ dashboard.dialogOpen
    /\ t \in AbsenceTypes /\ t # dashboard.absenceType
    /\ dashboard' = [dashboard EXCEPT !.absenceType = t]
    /\ ledger' = Submitted("none")
    /\ UNCHANGED <<db_users, db_absences, currentUser, route, calls, toast,
                   opCount, usersPage, approvals, myRequests, settingsPage>>

setStartDate(d) ==
    /\ DashboardRendered /\ dashboard.dialogOpen
    /\ d \in Days /\ d # dashboard.startDate
    /\ dashboard' = [dashboard EXCEPT !.startDate = d]
    /\ ledger' = Submitted("none")
    /\ UNCHANGED <<db_users, db_absences, currentUser, route, calls, toast,
                   opCount, usersPage, approvals, myRequests, settingsPage>>

setEndDate(d) ==
    /\ DashboardRendered /\ dashboard.dialogOpen
    /\ d \in Days /\ d # dashboard.endDate
    /\ dashboard' = [dashboard EXCEPT !.endDate = d]
    /\ ledger' = Submitted("none")
    /\ UNCHANGED <<db_users, db_absences, currentUser, route, calls, toast,
                   opCount, usersPage, approvals, myRequests, settingsPage>>

\* The hours input is rendered for a permit request only.
setHours(s) ==
    /\ DashboardRendered /\ dashboard.dialogOpen
    /\ dashboard.absenceType = "permesso"
    /\ s \in HoursInputs /\ s # dashboard.hours
    /\ dashboard' = [dashboard EXCEPT !.hours = s]
    /\ ledger' = Submitted("none")
    /\ UNCHANGED <<db_users, db_absences, currentUser, route, calls, toast,
                   opCount, usersPage, approvals, myRequests, settingsPage>>

\* A mutant of HoursInputValid: the input has no max attribute.
HoursInputValidNoMax(s) ==
    /\ s # <<>>
    /\ ParseFloat(s).t = "number"
    /\ ParseFloat(s).v >= MinPermitHours

\* Constraint validation of the hours input: required, min="0.5", max="8"
\* (step="0.5" holds of every number counted in half hours).
HoursInputValid(s) ==
    /\ s # <<>>
    /\ ParseFloat(s).t = "number"
    /\ ParseFloat(s).v >= MinPermitHours
    /\ ParseFloat(s).v <= MaxPermitHours

\* Constraint validation of the form, which the browser runs before it
\* dispatches the submit event: the select and both dates are required, the
\* end date has min={startDate}, and the hours input is validated when it is
\* rendered.
FormValid ==
    /\ dashboard.absenceType # ""
    /\ dashboard.startDate # NoDate
    /\ dashboard.endDate # NoDate
    /\ dashboard.endDate >= dashboard.startDate
    /\ dashboard.absenceType = "permesso" => HoursInputValid(dashboard.hours)

\* The request body handleCreateAbsence sends.
CreateAbsenceBody ==
    [absence_type |-> dashboard.absenceType,
     start_date |-> dashboard.startDate,
     end_date |-> dashboard.endDate,
     hours |-> IF dashboard.absenceType = "permesso"
               THEN ToJSON(ParseFloat(dashboard.hours)) ELSE null]

\* A mutant of handleCreateAbsence: the form is sent as it is, with neither
\* the constraint validation nor the handler's check of the hours.
handleCreateAbsenceUnchecked ==
    /\ DashboardRendered /\ dashboard.dialogOpen /\ ~dashboard.submitting
    /\ opCount < MaxRequests /\ Len(calls) < MaxCalls
    /\ Cardinality(DOMAIN db_absences) < MaxAbsences
    /\ dashboard' = [dashboard EXCEPT !.submitting = TRUE]
    /\ calls' = Append(calls,
          Call("handleCreateAbsence", "createAbsence", NoAbsence,
               CreateAbsenceBody, null))
    /\ opCount' = opCount + 1
    /\ toast' = toast
    /\ ledger' = Submitted("sent")
    /\ UNCHANGED <<db_users, db_absences, currentUser, route,
                   usersPage, approvals, myRequests, settingsPage>>

\* A click on "Invia Richiesta" (disabled while submitting) and
\* handleCreateAbsence up to its await.  An invalid form is not submitted:
\* the browser reports the first invalid control and no submit event fires.
handleCreateAbsence ==
    /\ DashboardRendered /\ dashboard.dialogOpen /\ ~dashboard.submitting
    /\ opCount < MaxRequests /\ Len(calls) < MaxCalls
    /\ Cardinality(DOMAIN db_absences) < MaxAbsences
    /\ IF ~FormValid
       THEN /\ ledger' = Submitted("invalid")
            /\ UNCHANGED <<dashboard, calls, opCount, toast>>
       ELSE IF dashboard.absenceType = "permesso" /\ Falsy(dashboard.hours)
       THEN /\ toast' = Toast("error", "Inserisci le ore per il permesso")
            /\ ledger' = Submitted("returned")
            /\ UNCHANGED <<dashboard, calls, opCount>>
       ELSE /\ dashboard' = [dashboard EXCEPT !.submitting = TRUE]
            /\ calls' = Append(calls,
                  Call("handleCreateAbsence", "createAbsence", NoAbsence,
                       CreateAbsenceBody, null))
            /\ opCount' = opCount + 1
            /\ toast' = toast
            /\ ledger' = Submitted("sent")
    /\ UNCHANGED <<db_users, db_absences, currentUser, route,
                   usersPage, approvals, myRequests, settingsPage>>

\* A mutant of handleCreateAbsence_done: submitting is cleared on failure
\* only.
handleCreateAbsence_doneNoFinally(i) ==
    /\ Settled(i) /\ calls[i].handler = "handleCreateAbsence"
    /\ IF calls[i].st = "ok"
       THEN /\ toast' = Toast("success", "Richiesta inviata con successo!")
            /\ dashboard' = [dashboard EXCEPT
                    !.dialogOpen = FALSE, !.absenceType = "",
                    !.startDate = NoDate, !.endDate = NoDate,
                    !.hours = <<>>]
            /\ calls' = Append(RemoveAt(calls, i), Dashboard_fetchDataCall)
       ELSE /\ toast' = Toast("error", "Errore nell'invio della richiesta")
            /\ dashboard' = [dashboard EXCEPT !.submitting = FALSE]
            /\ calls' = RemoveAt(calls, i)
    /\ ledger' = Submitted("none")
    /\ UNCHANGED <<db_users, db_absences, currentUser, route, opCount,
                   usersPage, approvals, myRequests, settingsPage>>

\* handleCreateAbsence after its await: on success the toast, the dialog
\* closed, the fields emptied and fetchData() started; on failure the error
\* toast; submitting cleared in both cases.
handleCreateAbsence_done(i) ==
    /\ Settled(i) /\ calls[i].handler = "handleCreateAbsence"
    /\ IF calls[i].st = "ok"
       THEN /\ toast' = Toast("success", "Richiesta inviata con successo!")
            /\ dashboard' = [dashboard EXCEPT
                    !.dialogOpen = FALSE, !.absenceType = "",
                    !.startDate = NoDate, !.endDate = NoDate,
                    !.hours = <<>>, !.submitting = FALSE]
            /\ calls' = Append(RemoveAt(calls, i), Dashboard_fetchDataCall)
       ELSE /\ toast' = Toast("error", "Errore nell'invio della richiesta")
            /\ dashboard' = [dashboard EXCEPT !.submitting = FALSE]
            /\ calls' = RemoveAt(calls, i)
    /\ ledger' = Submitted("none")
    /\ UNCHANGED <<db_users, db_absences, currentUser, route, opCount,
                   usersPage, approvals, myRequests, settingsPage>>

-----------------------------------------------------------------------------
(* Approvals page *)

ApprovalsInit ==
    [pendingAbsences |-> EmptyMap, allAbsences |-> EmptyMap, users |-> EmptyMap,
     loading |-> TRUE, processing |-> NoAbsence,
     rejectDialog |-> [open |-> FALSE, absence |-> NoAbsence],
     rejectReason |-> "",
     statusDialog |-> [open |-> FALSE, absence |-> NoAbsence],
     newStatus |-> ""]

\* Text a user types into the "Motivo del rifiuto" textarea.
ReasonInputs == {"", "motivo"}

\* The Approvals component is mounted and past its loading spinner.
ApprovalsRendered ==
    /\ route = "/approvals"
    /\ ProtectedRoute("/approvals", currentUser) = "/approvals"
    /\ ~approvals.loading

Approvals_fetchDataCall ==
    [Call("Approvals.fetchData", "getPendingAbsences+getAbsences+getUsers",
          NoUser, null, null)
        EXCEPT !.data = [pending |-> [t |-> "pending", v |-> EmptyMap],
                         absences |-> [t |-> "pending", v |-> EmptyMap],
                         users |-> [t |-> "pending", v |-> EmptyMap]]]

\* fetchData after Promise.all has settled: it rejects as soon as
\* getPendingAbsences or getAbsences fails; a failure of getUsers is caught
\* and yields an empty list.
Approvals_fetchData_done(i) ==
    /\ i \in 1..Len(calls) /\ calls[i].handler = "Approvals.fetchData"
    /\ LET d == calls[i].data
           failed == "err" \in {d.pending.t, d.absences.t}
       IN  /\ \/ failed
              \/ /\ d.pending.t = "ok" /\ d.absences.t = "ok"
                 /\ d.users.t # "pending"
           /\ IF failed
              THEN /\ approvals' = [approvals EXCEPT !.loading = FALSE]
                   /\ toast' = Toast("error", "Errore nel caricamento delle richieste")
              ELSE /\ approvals' = [approvals EXCEPT
                        !.pendingAbsences = d.pending.v,
                        !.allAbsences = d.absences.v,
                        !.users = d.users.v,
                        !.loading = FALSE]
                   /\ toast' = toast
    /\ calls' = RemoveAt(calls, i)
    /\ UNCHANGED <<db_users, db_absences, currentUser, route, opCount,
                   ledger, usersPage, dashboard, myRequests, settingsPage>>

\* A mutant of DecisionButtons: the buttons are shown on every row.
DecisionButtonsOnEveryRow(a) ==
    /\ ApprovalsRendered
    /\ ~approvals.rejectDialog.open /\ ~approvals.statusDialog.open
    /\ a \in DOMAIN approvals.pendingAbsences \cup DOMAIN approvals.allAbsences
    /\ approvals.processing # a

\* renderAbsenceRow shows the "Approva" and "Rifiuta" buttons on a row whose
\* request is pending in the list the page holds, in the pending tab and in
\* the tab of all requests; they are disabled on the row being processed.
DecisionButtons(a) ==
    /\ ApprovalsRendered
    /\ ~approvals.rejectDialog.open /\ ~approvals.statusDialog.open
    /\ \/ a \in DOMAIN approvals.pendingAbsences
             /\ approvals.pendingAbsences[a].status = "pending"
       \/ a \in DOMAIN approvals.allAbsences
             /\ approvals.allAbsences[a].status = "pending"
    /\ approvals.processing # a

\* The body of PUT /absences/{id}/action.
ActionBody(action, reason) == [action |-> action, reason |-> reason]

\* A mutant of handleApprove: the request is sent with the other action.
handleApproveAsReject(a) ==
    /\ DecisionButtons(a)
    /\ opCount < MaxOps /\ Len(calls) < MaxCalls
    /\ approvals' = [approvals EXCEPT !.processing = a]
    /\ calls' = Append(calls,
          Call("handleApprove", "handleAbsenceAction", a,
               ActionBody("reject", ""), null))
    /\ opCount' = opCount + 1
    /\ UNCHANGED <<db_users, db_absences, currentUser, route, toast,
                   ledger, usersPage, dashboard, myRequests, settingsPage>>

\* handleApprove up to its await; the reason is undefined and JSON leaves it
\* out of the body.
handleApprove(a) ==
    /\ DecisionButtons(a)
    /\ opCount < MaxOps /\ Len(calls) < MaxCalls
    /\ approvals' = [approvals EXCEPT !.processing = a]
    /\ calls' = Append(calls,
          Call("handleApprove", "handleAbsenceAction", a,
               ActionBody("approve", ""), null))
    /\ opCount' = opCount + 1
    /\ UNCHANGED <<db_users, db_absences, currentUser, route, toast,
                   ledger, usersPage, dashboard, myRequests, settingsPage>>

handleApprove_done(i) ==
    /\ Settled(i) /\ calls[i].handler = "handleApprove"
    /\ IF calls[i].st = "ok"
       THEN /\ toast' = Toast("success", "Richiesta approvata!")
            /\ calls' = Append(RemoveAt(calls, i), Approvals_fetchDataCall)
       ELSE /\ toast' = Toast("error", "Errore nell'approvazione")
            /\ calls' = RemoveAt(calls, i)
    /\ approvals' = [approvals EXCEPT !.processing = NoAbsence]
    /\ UNCHANGED <<db_users, db_absences, currentUser, route, opCount,
                   ledger, usersPage, dashboard, myRequests, settingsPage>>

\* "Rifiuta" on a row: the dialog opens for the request; the reason typed
\* earlier is kept.
openRejectDialog(a) ==
    /\ DecisionButtons(a)
    /\ approvals' = [approvals EXCEPT
            !.rejectDialog = [open |-> TRUE, absence |-> a]]
    /\ UNCHANGED <<db_users, db_absences, currentUser, route, calls, toast,
                   opCount, ledger, usersPage, dashboard, myRequests,
                   settingsPage>>

\* "Annulla" closes the dialog and forgets the request; closing it otherwise
\* (onOpenChange) keeps the request.
closeRejectDialog(forget) ==
    /\ ApprovalsRendered /\ approvals.rejectDialog.open
    /\ approvals' = [approvals EXCEPT
            !.rejectDialog = [open |-> FALSE,
                              absence |-> IF forget THEN NoAbsence
                                          ELSE approvals.rejectDialog.absence]]
    /\ UNCHANGED <<db_users, db_absences, currentUser, route, calls, toast,
                   opCount, ledger, usersPage, dashboard, myRequests,
                   settingsPage>>

setRejectReason(r) ==
    /\ ApprovalsRendered /\ approvals.rejectDialog.open
    /\ r \in ReasonInputs /\ r # approvals.rejectReason
    /\ approvals' = [approvals EXCEPT !.rejectReason = r]
    /\ UNCHANGED <<db_users, db_absences, currentUser, route, calls, toast,
                   opCount, ledger, usersPage, dashboard, myRequests,
                   settingsPage>>

\* A mutant of handleReject: the request is sent with the other action.
handleRejectAsApprove ==
    /\ ApprovalsRendered /\ approvals.rejectDialog.open
    /\ approvals.processing = NoAbsence
    /\ opCount < MaxOps /\ Len(calls) < MaxCalls
    /\ IF approvals.rejectDialog.absence = NoAbsence
       THEN UNCHANGED <<approvals, calls, opCount>>
       ELSE /\ approvals' = [approvals EXCEPT
                    !.processing = approvals.rejectDialog.absence]
            /\ calls' = Append(calls,
                  Call("handleReject", "handleAbsenceAction",
                       approvals.rejectDialog.absence,
                       ActionBody("approve", approvals.rejectReason), null))
            /\ opCount' = opCount + 1
    /\ UNCHANGED <<db_users, db_absences, currentUser, route, toast,
                   ledger, usersPage, dashboard, myRequests, settingsPage>>

\* handleReject up to its await ("Conferma Rifiuto" is disabled while a
\* request is being processed).
handleReject ==
    /\ ApprovalsRendered /\ approvals.rejectDialog.open
    /\ approvals.processing = NoAbsence
    /\ opCount < MaxOps /\ Len(calls) < MaxCalls
    /\ IF approvals.rejectDialog.absence = NoAbsence
       THEN UNCHANGED <<approvals, calls, opCount>>
       ELSE /\ approvals' = [approvals EXCEPT
                    !.processing = approvals.rejectDialog.absence]
            /\ calls' = Append(calls,
                  Call("handleReject", "handleAbsenceAction",
                       approvals.rejectDialog.absence,
                       ActionBody("reject", approvals.rejectReason), null))
            /\ opCount' = opCount + 1
    /\ UNCHANGED <<db_users, db_absences, currentUser, route, toast,
                   ledger, usersPage, dashboard, myRequests, settingsPage>>

\* handleReject after its await: on success the dialog is closed, the reason
\* emptied and fetchData() started; processing cleared in both cases.
handleReject_done(i) ==
    /\ Settled(i) /\ calls[i].handler = "handleReject"
    /\ IF calls[i].st = "ok"
       THEN /\ toast' = Toast("success", "Richiesta rifiutata")
            /\ approvals' = [approvals EXCEPT
                    !.rejectDialog = [open |-> FALSE, absence |-> NoAbsence],
                    !.rejectReason = "",
                    !.processing = NoAbsence]
            /\ calls' = Append(RemoveAt(calls, i), Approvals_fetchDataCall)
       ELSE /\ toast' = Toast("error", "Errore nel rifiuto")
            /\ approvals' = [approvals EXCEPT !.processing = NoAbsence]
            /\ calls' = RemoveAt(calls, i)
    /\ UNCHANGED <<db_users, db_absences, currentUser, route, opCount,
                   ledger, usersPage, dashboard, myRequests, settingsPage>>

\* A mutant of StatusOptions: the select has a fourth item.
StatusOptionsWithCancelled == {"pending", "approved", "rejected", "cancelled"}

\* The items of the "Nuovo stato" select.
StatusOptions == {"pending", "approved", "rejected"}

\* renderAbsenceRow shows the "Cambia stato" menu on a row of the tab of all
\* requests whose request is not pending in the list the page holds.
StatusMenu(a) ==
    /\ ApprovalsRendered
    /\ ~approvals.rejectDialog.open /\ ~approvals.statusDialog.open
    /\ a \in DOMAIN approvals.allAbsences
    /\ approvals.allAbsences[a].status # "pending"

\* openStatusDialog: the select starts at the status the row shows.
openStatusDialog(a) ==
    /\ StatusMenu(a)
    /\ approvals' = [approvals EXCEPT
            !.newStatus = approvals.allAbsences[a].status,
            !.statusDialog = [open |-> TRUE, absence |-> a]]
    /\ UNCHANGED <<db_users, db_absences, currentUser, route, calls, toast,
                   opCount, ledger, usersPage, dashboard, myRequests,
                   settingsPage>>

\* "Annulla" closes the dialog and forgets the request; closing it otherwise
\* (onOpenChange) keeps the request.
closeStatusDialog(forget) ==
    /\ ApprovalsRendered /\ approvals.statusDialog.open
    /\ approvals' = [approvals EXCEPT
            !.statusDialog = [open |-> FALSE,
                              absence |-> IF forget THEN NoAbsence
                                          ELSE approvals.statusDialog.absence]]
    /\ UNCHANGED <<db_users, db_absences, currentUser, route, calls, toast,
                   opCount, ledger, usersPage, dashboard, myRequests,
                   settingsPage>>

setNewStatus(s) ==
    /\ ApprovalsRendered /\ approvals.statusDialog.open
    /\ s \in StatusOptions /\ s # approvals.newStatus
    /\ approvals' = [approvals EXCEPT !.newStatus = s]
    /\ UNCHANGED <<db_users, db_absences, currentUser, route, calls, toast,
                   opCount, ledger, usersPage, dashboard, myRequests,
                   settingsPage>>

\* The body of the status override; the "Motivo" textarea is left empty.
StatusBody(status) == [status |-> status, reason |-> ""]

\* handleChangeStatus up to its await ("Salva" is disabled while a request is
\* being processed or while no status is selected).
handleChangeStatus ==
    /\ ApprovalsRendered /\ approvals.statusDialog.open
    /\ approvals.processing = NoAbsence /\ approvals.newStatus # ""
    /\ opCount < MaxOps /\ Len(calls) < MaxCalls
    /\ IF approvals.statusDialog.absence = NoAbsence
       THEN UNCHANGED <<approvals, calls, opCount>>
       ELSE /\ approvals' = [approvals EXCEPT
                    !.processing = approvals.statusDialog.absence]
            /\ calls' = Append(calls,
                  Call("handleChangeStatus", "changeAbsenceStatus",
                       approvals.statusDialog.absence,
                       StatusBody(approvals.newStatus), null))
            /\ opCount' = opCount + 1
    /\ UNCHANGED <<db_users, db_absences, currentUser, route, toast,
                   ledger, usersPage, dashboard, myRequests, settingsPage>>

\* handleChangeStatus after its await: on success the dialog is closed, the
\* selection emptied and fetchData() started; processing cleared in both
\* cases.
handleChangeStatus_done(i) ==
    /\ Settled(i) /\ calls[i].handler = "handleChangeStatus"
    /\ IF calls[i].st = "ok"
       THEN /\ toast' = Toast("success", "Stato modificato!")
            /\ approvals' = [approvals EXCEPT
                    !.statusDialog = [open |-> FALSE, absence |-> NoAbsence],
                    !.newStatus = "",
                    !.processing = NoAbsence]
            /\ calls' = Append(RemoveAt(calls, i), Approvals_fetchDataCall)
       ELSE /\ toast' = Toast("error", "Errore nel cambio stato")
            /\ approvals' = [approvals EXCEPT !.processing = NoAbsence]
            /\ calls' = RemoveAt(calls, i)
    /\ UNCHANGED <<db_users, db_absences, currentUser, route, opCount,
                   ledger, usersPage, dashboard, myRequests, settingsPage>>

-----------------------------------------------------------------------------
(* MyRequests page *)

MyRequestsInit == [absences |-> EmptyMap, loading |-> TRUE, deleting |-> NoAbsence]

\* The MyRequests component is mounted and past its loading spinner.
MyRequestsRendered == route = "/my-requests" /\ ~myRequests.loading

MyRequests_fetchAbsencesCall ==
    [Call("MyRequests.fetchAbsences", "getMyAbsences", NoUser, null, null)
        EXCEPT !.data = [mine |-> [t |-> "pending", v |-> EmptyMap]]]

MyRequests_fetchAbsences_done(i) ==
    /\ i \in 1..Len(calls) /\ calls[i].handler = "MyRequests.fetchAbsences"
    /\ calls[i].data.mine.t # "pending"
    /\ IF calls[i].data.mine.t = "ok"
       THEN /\ myRequests' = [myRequests EXCEPT
                    !.absences = calls[i].data.mine.v, !.loading = FALSE]
            /\ toast' = toast
       ELSE /\ myRequests' = [myRequests EXCEPT !.loading = FALSE]
            /\ toast' = Toast("error", "Errore nel caricamento delle richieste")
    /\ calls' = RemoveAt(calls, i)
    /\ UNCHANGED <<db_users, db_absences, currentUser, route, opCount,
                   ledger, usersPage, dashboard, approvals, settingsPage>>

\* A mutant of DeleteOffered: the bin is shown on every row.
DeleteOfferedOnEveryRow(a) ==
    /\ MyRequestsRendered
    /\ a \in DOMAIN myRequests.absences

\* The bin that opens "Elimina Richiesta" is rendered on a row whose request
\* is pending in the list the page holds.
DeleteOffered(a) ==
    /\ MyRequestsRendered
    /\ a \in DOMAIN myRequests.absences
    /\ myRequests.absences[a].status = "pending"

\* handleDelete up to its await, from "Elimina" of the confirmation; the
\* closure holds the list of the render it was clicked in.
MyRequests_handleDelete(a) ==
    /\ DeleteOffered(a)
    /\ opCount < MaxOps /\ Len(calls) < MaxCalls
    /\ myRequests' = [myRequests EXCEPT !.deleting = a]
    /\ calls' = Append(calls,
          Call("MyRequests.handleDelete", "deleteAbsence", a, null,
               [absences |-> myRequests.absences]))
    /\ opCount' = opCount + 1
    /\ UNCHANGED <<db_users, db_absences, currentUser, route, toast,
                   ledger, usersPage, dashboard, approvals, settingsPage>>

\* handleDelete after its await: on success the row is filtered out of the
\* list the closure holds; deleting cleared in both cases.
MyRequests_handleDelete_done(i) ==
    /\ Settled(i) /\ calls[i].handler = "MyRequests.handleDelete"
    /\ IF calls[i].st = "ok"
       THEN /\ toast' = Toast("success", "Richiesta eliminata")
            /\ myRequests' = [myRequests EXCEPT
                    !.absences = Without(calls[i].closure.absences, calls[i].id),
                    !.deleting = NoAbsence]
       ELSE /\ toast' = Toast("error", "Errore nell'eliminazione")
            /\ myRequests' = [myRequests EXCEPT !.deleting = NoAbsence]
    /\ calls' = RemoveAt(calls, i)
    /\ UNCHANGED <<db_users, db_absences, currentUser, route, opCount,
                   ledger, usersPage, dashboard, approvals, settingsPage>>

-----------------------------------------------------------------------------
(* Approvals page with the single list of the pending requests: the        *)
(* component keeps its state where the Approvals page keeps it, and a      *)
(* decided request is taken out of the list in place of a reload.          *)

PendingApprovalsInit ==
    [absences |-> EmptyMap, loading |-> TRUE, processing |-> NoAbsence,
     rejectDialog |-> [open |-> FALSE, absence |-> NoAbsence],
     rejectReason |-> ""]

PendingApprovals_fetchPendingAbsencesCall ==
    [Call("PendingApprovals.fetchPendingAbsences", "getPendingAbsences",
          NoUser, null, null)
        EXCEPT !.data = [pending |-> [t |-> "pending", v |-> EmptyMap]]]

PendingApprovals_fetchPendingAbsences_done(i) ==
    /\ i \in 1..Len(calls)
    /\ calls[i].handler = "PendingApprovals.fetchPendingAbsences"
    /\ calls[i].data.pending.t # "pending"
    /\ IF calls[i].data.pending.t = "ok"
       THEN /\ approvals' = [approvals EXCEPT
                    !.absences = calls[i].data.pending.v, !.loading = FALSE]
            /\ toast' = toast
       ELSE /\ approvals' = [approvals EXCEPT !.loading = FALSE]
            /\ toast' = Toast("error", "Errore nel caricamento delle richieste")
    /\ calls' = RemoveAt(calls, i)
    /\ UNCHANGED <<db_users, db_absences, currentUser, route, opCount,
                   ledger, usersPage, dashboard, myRequests, settingsPage>>

\* The "Approva" and "Rifiuta" buttons of a row of the list; they are
\* disabled on the row being processed.
PendingApprovals_Buttons(a) ==
    /\ ApprovalsRendered
    /\ ~approvals.rejectDialog.open
    /\ a \in DOMAIN approvals.absences
    /\ approvals.processing # a

\* handleApprove up to its await; the closure holds the list of the render
\* it was clicked in.
PendingApprovals_handleApprove(a) ==
    /\ PendingApprovals_Buttons(a)
    /\ opCount < MaxOps /\ Len(calls) < MaxCalls
    /\ approvals' = [approvals EXCEPT !.processing = a]
    /\ calls' = Append(calls,
          Call("PendingApprovals.handleApprove", "handleAbsenceAction", a,
               ActionBody("approve", ""), [absences |-> approvals.absences]))
    /\ opCount' = opCount + 1
    /\ UNCHANGED <<db_users, db_absences, currentUser, route, toast,
                   ledger, usersPage, dashboard, myRequests, settingsPage>>

\* handleApprove after its await: on success the row is filtered out of the
\* list the closure holds; processing cleared in both cases.
PendingApprovals_handleApprove_done(i) ==
    /\ Settled(i) /\ calls[i].handler = "PendingApprovals.handleApprove"
    /\ IF calls[i].st = "ok"
       THEN /\ toast' = Toast("success", "Richiesta approvata!")
            /\ approvals' = [approvals EXCEPT
                    !.absences = Without(calls[i].closure.absences, calls[i].id),
                    !.processing = NoAbsence]
       ELSE /\ toast' = Toast("error", "Errore nell'approvazione")
            /\ approvals' = [approvals EXCEPT !.processing = NoAbsence]
    /\ calls' = RemoveAt(calls, i)
    /\ UNCHANGED <<db_users, db_absences, currentUser, route, opCount,
                   ledger, usersPage, dashboard, myRequests, settingsPage>>

\* "Rifiuta" on a row: the dialog opens for the request; the reason is not
\* touched.
PendingApprovals_openRejectDialog(a) ==
    /\ PendingApprovals_Buttons(a)
    /\ approvals' = [approvals EXCEPT
            !.rejectDialog = [open |-> TRUE, absence |-> a]]
    /\ UNCHANGED <<db_users, db_absences, currentUser, route, calls, toast,
                   opCount, ledger, usersPage, dashboard, myRequests,
                   settingsPage>>

\* "Annulla" closes the dialog, forgets the request and empties the reason;
\* closing the dialog otherwise (onOpenChange) keeps the request and the
\* reason.
PendingApprovals_closeRejectDialog(cancel) ==
    /\ ApprovalsRendered /\ approvals.rejectDialog.open
    /\ approvals' = IF cancel
                    THEN [approvals EXCEPT
                            !.rejectDialog = [open |-> FALSE, absence |-> NoAbsence],
                            !.rejectReason = ""]
                    ELSE [approvals EXCEPT !.rejectDialog.open = FALSE]
    /\ UNCHANGED <<db_users, db_absences, currentUser, route, calls, toast,
                   opCount, ledger, usersPage, dashboard, myRequests,
                   settingsPage>>

PendingApprovals_setRejectReason(r) ==
    /\ ApprovalsRendered /\ approvals.rejectDialog.open
    /\ r \in ReasonInputs /\ r # approvals.rejectReason
    /\ approvals' = [approvals EXCEPT !.rejectReason = r]
    /\ UNCHANGED <<db_users, db_absences, currentUser, route, calls, toast,
                   opCount, ledger, usersPage, dashboard, myRequests,
                   settingsPage>>

\* handleReject up to its await ("Conferma Rifiuto" is disabled while a
\* request is being processed); the closure holds the list and the dialog
\* of the render it was clicked in.
PendingApprovals_handleReject ==
    /\ ApprovalsRendered /\ approvals.rejectDialog.open
    /\ approvals.processing = NoAbsence
    /\ opCount < MaxOps /\ Len(calls) < MaxCalls
    /\ IF approvals.rejectDialog.absence = NoAbsence
       THEN UNCHANGED <<approvals, calls, opCount>>
       ELSE /\ approvals' = [approvals EXCEPT
                    !.processing = approvals.rejectDialog.absence]
            /\ calls' = Append(calls,
                  Call("PendingApprovals.handleReject", "handleAbsenceAction",
                       approvals.rejectDialog.absence,
                       ActionBody("reject", approvals.rejectReason),
                       [absences |-> approvals.absences,
                        rejectDialog |-> approvals.rejectDialog]))
            /\ opCount' = opCount + 1
    /\ UNCHANGED <<db_users, db_absences, currentUser, route, toast,
                   ledger, usersPage, dashboard, myRequests, settingsPage>>

\* handleReject after its await: on success the row is filtered out of the
\* list the closure holds, the dialog closed and the reason emptied;
\* processing cleared in both cases.
PendingApprovals_handleReject_done(i) ==
    /\ Settled(i) /\ calls[i].handler = "PendingApprovals.handleReject"
    /\ IF calls[i].st = "ok"
       THEN /\ toast' = Toast("success", "Richiesta rifiutata")
            /\ approvals' = [approvals EXCEPT
                    !.absences = Without(calls[i].closure.absences,
                                         calls[i].closure.rejectDialog.absence),
                    !.rejectDialog = [open |-> FALSE, absence |-> NoAbsence],
                    !.rejectReason = "",
                    !.processing = NoAbsence]
       ELSE /\ toast' = Toast("error", "Errore nel rifiuto")
            /\ approvals' = [approvals EXCEPT !.processing = NoAbsence]
    /\ calls' = RemoveAt(calls, i)
    /\ UNCHANGED <<db_users, db_absences, currentUser, route, opCount,
                   ledger, usersPage, dashboard, myRequests, settingsPage>>

-----------------------------------------------------------------------------
(* Settings page *)

SettingsInit == [settings |-> [company_name |-> ""], loading |-> TRUE]

Settings_fetchSettingsCall ==
    [Call("Settings.fetchSettings", "getSettings", NoUser, null, null)
        EXCEPT !.data = [settings |-> [t |-> "pending", v |-> EmptyMap]]]

Settings_fetchSettings_done(i) ==
    /\ i \in 1..Len(calls) /\ calls[i].handler = "Settings.fetchSettings"
    /\ calls[i].data.settings.t # "pending"
    /\ IF calls[i].data.settings.t = "ok"
       THEN /\ settingsPage' = [settings |-> calls[i].data.settings.v,
                                loading |-> FALSE]
            /\ toast' = toast
       ELSE /\ settingsPage' = [settingsPage EXCEPT !.loading = FALSE]
            /\ toast' = Toast("error", "Errore nel caricamento delle impostazioni")
    /\ calls' = RemoveAt(calls, i)
    /\ UNCHANGED <<db_users, db_absences, currentUser, route, opCount,
                   ledger, usersPage, dashboard, approvals, myRequests>>

-----------------------------------------------------------------------------
(* Specification of the ledger driven from the Users page: an admin is     *)
(* logged in and the page has just been mounted.                           *)

\* Starting totals (vacation, permit) a user's document is drawn from.
InitTotals == {<<0, 0>>, <<64, 80>>}

\* The user documents at the start: user 1 is the admin, the roles of the
\* others follow in turn; the monthly rates differ per user and category.
RoleOf(u) == <<"admin", "manager", "employee", "ufficio_personale">>[((u - 1) % 4) + 1]

InitUsers ==
    { [u \in UserIds |->
          [role |-> RoleOf(u),
           total_ferie_hours |-> tot[1],
           total_permessi_hours |-> tot[2],
           monthly_ferie_hours |-> 2 * u + 2,
           monthly_permessi_hours |-> u]] : tot \in InitTotals }

Init ==
    /\ db_users \in InitUsers
    /\ db_absences = EmptyMap
    /\ currentUser = [user_id |-> 1, role |-> "admin"]
    /\ route = "/users"
    /\ calls = <<Users_fetchDataCall>>
    /\ toast = NoToast
    /\ opCount = 0
    /\ ledger = [base |-> db_users, log |-> <<>>, submit |-> "none", asked |-> ""]
    /\ usersPage = UsersPageInit
    /\ dashboard = DashboardInit
    /\ approvals = ApprovalsInit
    /\ myRequests = MyRequestsInit
    /\ settingsPage = SettingsInit

Next ==
    \/ \E i \in 1..MaxCalls : Server_addHours(i)
    \/ \E i \in 1..MaxCalls : Server_accrualBegin(i)
    \/ \E i \in 1..MaxCalls, u \in UserIds : Server_accrualStep(i, u)
    \/ \E i \in 1..MaxCalls : Server_accrualEnd(i)
    \/ \E i \in 1..MaxCalls : Server_deleteUser(i)
    \/ \E i \in 1..MaxCalls : Server_getUsers(i)
    \/ \E i \in 1..MaxCalls : Server_getAllBalances(i)
    \/ \E i \in 1..MaxCalls : Users_fetchData_done(i)
    \/ \E u \in UserIds : openHoursDialog(u)
    \/ closeHoursDialog
    \/ \E t \in {"ferie", "permessi"} : setAddHoursType(t)
    \/ \E s \in AmountInputs : setAddHoursAmount(s)
    \/ handleAddHours
    \/ \E i \in 1..MaxCalls : handleAddHours_done(i)
    \/ handleMonthlyAccrual
    \/ \E i \in 1..MaxCalls : handleMonthlyAccrual_done(i)
    \/ \E u \in UserIds : Users_handleDelete(u)
    \/ \E i \in 1..MaxCalls : Users_handleDelete_done(i)

Spec == Init /\ [][Next]_vars

-----------------------------------------------------------------------------
(* Specification of the absence requests: a user is logged in and has just *)
(* opened the Dashboard or the Approvals page; the store may hold requests *)
(* made earlier.                                                           *)

Absence(u, type, from, to, hours, status) ==
    [user_id |-> u, absence_type |-> type, start_date |-> from,
     end_date |-> to, hours |-> hours, status |-> status, reason |-> ""]

\* Stores at the start: none, a pending permit request of 4 h, and a pending
\* permit request of 4 h next to a pending vacation request of two days.
InitAbsences ==
    { EmptyMap,
      [id \in {1} |-> Absence(NumUsers, "permesso", 1, 1, Num(8), "pending")],
      [id \in {1, 2} |->
          IF id = 1 THEN Absence(NumUsers, "permesso", 1, 1, Num(8), "pending")
          ELSE Absence(NumUsers, "ferie", 1, MaxDay, null, "pending")] }

\* fetchData of the page a route mounts.
MountCall(path) ==
    IF path = "/approvals" THEN Approvals_fetchDataCall
    ELSE IF path = "/users" THEN Users_fetchDataCall
    ELSE IF path = "/my-requests" THEN MyRequests_fetchAbsencesCall
    ELSE IF path = "/settings" THEN Settings_fetchSettingsCall
    ELSE Dashboard_fetchDataCall

InitAbsence ==
    /\ db_users \in InitUsers
    /\ db_users[1].total_ferie_hours > 0
    /\ db_absences \in InitAbsences
    /\ \E u \in UserIds : currentUser = [user_id |-> u, role |-> db_users[u].role]
    /\ route \in {"/", "/approvals"}
    /\ ProtectedRoute(route, currentUser) = route
    /\ calls = <<MountCall(route)>>
    /\ toast = NoToast
    /\ opCount = 0
    /\ ledger = [base |-> db_users, log |-> <<>>, submit |-> "none", asked |-> ""]
    /\ usersPage = UsersPageInit
    /\ dashboard = DashboardInit
    /\ approvals = ApprovalsInit
    /\ myRequests = MyRequestsInit
    /\ settingsPage = SettingsInit

NextAbsence ==
    \/ \E i \in 1..MaxCalls : Server_createAbsence(i)
    \/ \E i \in 1..MaxCalls : Server_absenceAction(i)
    \/ \E i \in 1..MaxCalls : Server_getAbsences(i)
    \/ \E i \in 1..MaxCalls : Server_getStats(i)
    \/ \E i \in 1..MaxCalls : Server_getMyBalance(i)
    \/ \E i \in 1..MaxCalls : Server_getPendingAbsences(i)
    \/ \E i \in 1..MaxCalls : Server_getUsers(i)
    \/ \E i \in 1..MaxCalls : Dashboard_fetchData_done(i)
    \/ \E open \in BOOLEAN : setDialogOpen(open)
    \/ \E t \in AbsenceTypes : setAbsenceType(t)
    \/ \E d \in Days : setStartDate(d)
    \/ \E d \in Days : setEndDate(d)
    \/ \E s \in HoursInputs : setHours(s)
    \/ handleCreateAbsence
    \/ \E i \in 1..MaxCalls : handleCreateAbsence_done(i)
    \/ \E i \in 1..MaxCalls : Approvals_fetchData_done(i)
    \/ \E a \in AbsenceIds : handleApprove(a)
    \/ \E i \in 1..MaxCalls : handleApprove_done(i)
    \/ \E a \in AbsenceIds : openRejectDialog(a)
    \/ \E forget \in BOOLEAN : closeRejectDialog(forget)
    \/ \E r \in ReasonInputs : setRejectReason(r)
    \/ handleReject
    \/ \E i \in 1..MaxCalls : handleReject_done(i)

SpecAbsence == InitAbsence /\ [][NextAbsence]_vars

-----------------------------------------------------------------------------
(* Specification of the session: logging in and out and moving between the *)
(* pages, each page loading its data when it is mounted.                   *)

\* Paths of the pages a session moves between.
Paths == {"/", "/approvals", "/users"}

\* The user documents at the start of a session: the roles of the users
\* other than the admin are any of the four.
InitUsersAnyRole ==
    { [u \in UserIds |-> [base[u] EXCEPT !.role = IF u = 1 THEN "admin" ELSE r]] :
          base \in {b \in InitUsers : b[1].total_ferie_hours > 0}, r \in AllRoles }

SessionOf(u) == [user_id |-> u, role |-> db_users[u].role]

\* The calls a page's mount puts in flight for a session user; none for the
\* login page.
Mounted(path, user) ==
    IF path = "/login" THEN <<>>
    ELSE <<[MountCall(path) EXCEPT !.caller = user.user_id]>>

\* Requests that change the store.
WritingApis ==
    {"addHoursToUser", "runMonthlyAccrual", "deleteUser", "createAbsence",
     "handleAbsenceAction", "changeAbsenceStatus", "deleteAbsence",
     "updateUser", "register"}

\* The calls that outlive the page that sent them: a request that changes
\* the store is still served, but the handler awaiting it belongs to a
\* component that is gone, so what it sets is lost; the responses to the
\* GETs of fetchData are lost altogether.
Orphaned(cs) ==
    LET kept == SelectSeq(cs, LAMBDA c : c.api \in WritingApis)
    IN  [i \in 1..Len(kept) |-> [kept[i] EXCEPT !.handler = "unmounted"]]

\* The response to a request of a page that was left: nothing is updated.
Unmounted_done(i) ==
    /\ Settled(i) /\ calls[i].handler = "unmounted"
    /\ calls' = RemoveAt(calls, i)
    /\ UNCHANGED <<db_users, db_absences, currentUser, route, toast, opCount,
                   ledger, usersPage, dashboard, approvals, myRequests,
                   settingsPage>>

\* handleLogin with credentials that are accepted: the session is that of
\* the user and navigate("/") mounts the Dashboard.
handleLogin(u) ==
    /\ route = "/login" /\ currentUser = NoSession
    /\ u \in DOMAIN db_users
    /\ Len(calls) < MaxCalls
    /\ currentUser' = SessionOf(u)
    /\ toast' = Toast("success", "Accesso effettuato con successo!")
    /\ route' = ProtectedRoute("/", SessionOf(u))
    /\ calls' = calls \o Mounted(ProtectedRoute("/", SessionOf(u)), SessionOf(u))
    /\ dashboard' = DashboardInit
    /\ UNCHANGED <<db_users, db_absences, opCount, ledger, usersPage, approvals,
                   myRequests, settingsPage>>

\* handleLogout: logout() and navigate("/login").  The pages are unmounted.
handleLogout ==
    /\ currentUser # NoSession
    /\ currentUser' = NoSession
    /\ route' = "/login"
    /\ calls' = Orphaned(calls)
    /\ usersPage' = UsersPageInit
    /\ dashboard' = DashboardInit
    /\ approvals' = ApprovalsInit
    /\ myRequests' = MyRequestsInit
    /\ settingsPage' = SettingsInit
    /\ UNCHANGED <<db_users, db_absences, toast, opCount, ledger>>

\* The router renders what ProtectedRoute yields for a path: the page that
\* is left is unmounted and loses its state, the page that is entered starts
\* as constructed and calls fetchData.
Routed(path) ==
    /\ currentUser # NoSession
    /\ ProtectedRoute(path, currentUser) # route
    /\ Len(Orphaned(calls)) < MaxCalls
    /\ route' = ProtectedRoute(path, currentUser)
    /\ calls' = Orphaned(calls)
                 \o Mounted(ProtectedRoute(path, currentUser), currentUser)
    /\ usersPage' = UsersPageInit
    /\ dashboard' = DashboardInit
    /\ approvals' = ApprovalsInit
    /\ myRequests' = MyRequestsInit
    /\ settingsPage' = SettingsInit
    /\ UNCHANGED <<db_users, db_absences, currentUser, toast, opCount>>

\* A path is opened in a session, from the sidebar or from the address bar.
Navigate(path) == Routed(path) /\ UNCHANGED ledger

\* The history with the path that was asked for.
Asked(path) == [ledger EXCEPT !.asked = path]

\* A path is opened by any visitor, with a session or without: without one
\* the router ends up at the login page; in a session the page is routed to
\* unless it is the one already rendered.
OpenPath(path) ==
    /\ ledger' = Asked(path)
    /\ IF currentUser # NoSession /\ ProtectedRoute(path, currentUser) # route
       THEN Routed(path)
       ELSE /\ route' = ProtectedRoute(path, currentUser)
            /\ UNCHANGED <<db_users, db_absences, currentUser, calls, toast,
                           opCount, usersPage, dashboard, approvals,
                           myRequests, settingsPage>>

\* isAdmin() and isManagerOrAdmin() of the AuthContext.
isAdmin(user) == user.role = "admin"
isManagerOrAdmin(user) == user.role \in {"admin", "manager"}

\* A mutant of NavShown: every entry is shown.
NavShownAll(path, user) == TRUE

\* navItems: the show flag of the sidebar entry of a path.
NavShown(path, user) ==
    CASE path = "/approvals" -> isManagerOrAdmin(user)
      [] path = "/users" -> isAdmin(user)
      [] path = "/settings" -> isAdmin(user)
      [] OTHER -> TRUE

\* An entry of the sidebar is clicked; the Layout with the sidebar is
\* rendered in a session only.
NavClick(path) ==
    /\ currentUser # NoSession
    /\ NavShown(path, currentUser)
    /\ OpenPath(path)

\* Paths of all the pages behind the login.
AllPaths == {"/", "/my-requests", "/approvals", "/users", "/settings"}

InitAccess ==
    /\ db_users \in InitUsersAnyRole
    /\ db_absences \in InitAbsences
    /\ currentUser = NoSession
    /\ route = "/login"
    /\ calls = <<>>
    /\ toast = NoToast
    /\ opCount = 0
    /\ ledger = [base |-> db_users, log |-> <<>>, submit |-> "none", asked |-> ""]
    /\ usersPage = UsersPageInit
    /\ dashboard = DashboardInit
    /\ approvals = ApprovalsInit
    /\ myRequests = MyRequestsInit
    /\ settingsPage = SettingsInit

NextAccess ==
    \/ \E u \in UserIds : handleLogin(u)
    \/ handleLogout
    \/ \E path \in AllPaths : OpenPath(path)
    \/ \E path \in AllPaths : NavClick(path)
    \/ \E i \in 1..MaxCalls : Server_getMyAbsences(i)
    \/ \E i \in 1..MaxCalls : MyRequests_fetchAbsences_done(i)
    \/ \E i \in 1..MaxCalls : Server_getSettings(i)
    \/ \E i \in 1..MaxCalls : Settings_fetchSettings_done(i)
    \/ \E i \in 1..MaxCalls : Server_getUsers(i)
    \/ \E i \in 1..MaxCalls : Server_getAllBalances(i)
    \/ \E i \in 1..MaxCalls : Server_getAbsences(i)
    \/ \E i \in 1..MaxCalls : Server_getStats(i)
    \/ \E i \in 1..MaxCalls : Server_getMyBalance(i)
    \/ \E i \in 1..MaxCalls : Server_getPendingAbsences(i)
    \/ \E i \in 1..MaxCalls : Users_fetchData_done(i)
    \/ \E i \in 1..MaxCalls : Dashboard_fetchData_done(i)
    \/ \E i \in 1..MaxCalls : Approvals_fetchData_done(i)
    \/ \E u \in UserIds : openHoursDialog(u)
    \/ closeHoursDialog
    \/ \E t \in {"ferie", "permessi"} : setAddHoursType(t)
    \/ \E s \in AmountInputs : setAddHoursAmount(s)

SpecAccess == InitAccess /\ [][NextAccess]_vars

-----------------------------------------------------------------------------
(* Specification of the sessions that manage the users: as above, and the  *)
(* Users page runs the monthly accrual and deletes users.                  *)

NextSession ==
    \/ \E u \in UserIds : handleLogin(u)
    \/ handleLogout
    \/ \E path \in Paths : Navigate(path)
    \/ \E i \in 1..MaxCalls : Server_getUsers(i)
    \/ \E i \in 1..MaxCalls : Server_getAllBalances(i)
    \/ \E i \in 1..MaxCalls : Server_getAbsences(i)
    \/ \E i \in 1..MaxCalls : Server_getStats(i)
    \/ \E i \in 1..MaxCalls : Server_getMyBalance(i)
    \/ \E i \in 1..MaxCalls : Server_getPendingAbsences(i)
    \/ \E i \in 1..MaxCalls : Users_fetchData_done(i)
    \/ \E i \in 1..MaxCalls : Dashboard_fetchData_done(i)
    \/ \E i \in 1..MaxCalls : Approvals_fetchData_done(i)
    \/ handleMonthlyAccrual
    \/ \E i \in 1..MaxCalls : Server_accrualBegin(i)
    \/ \E i \in 1..MaxCalls, u \in UserIds : Server_accrualStep(i, u)
    \/ \E i \in 1..MaxCalls : Server_accrualEnd(i)
    \/ \E i \in 1..MaxCalls : handleMonthlyAccrual_done(i)
    \/ \E u \in UserIds : Users_handleDelete(u)
    \/ \E i \in 1..MaxCalls : Server_deleteUser(i)
    \/ \E i \in 1..MaxCalls : Users_handleDelete_done(i)
    \/ \E i \in 1..MaxCalls : Unmounted_done(i)

SpecSession == InitAccess /\ [][NextSession]_vars

-----------------------------------------------------------------------------
(* Specification of the life of a request: sessions of its owner and of    *)
(* the approvers, who create, decide, override and delete requests.        *)

\* Paths of the pages these sessions move between.
RequestPaths == {"/", "/my-requests", "/approvals"}

InitRequests ==
    /\ db_users \in InitUsersAnyRole
    /\ db_absences \in InitAbsences
    /\ currentUser = NoSession
    /\ route = "/login"
    /\ calls = <<>>
    /\ toast = NoToast
    /\ opCount = 0
    /\ ledger = [base |-> db_users, log |-> <<>>, submit |-> "none", asked |-> ""]
    /\ usersPage = UsersPageInit
    /\ dashboard = DashboardInit
    /\ approvals = ApprovalsInit
    /\ myRequests = MyRequestsInit
    /\ settingsPage = SettingsInit

NextRequests ==
    \/ \E u \in UserIds : handleLogin(u)
    \/ handleLogout
    \/ \E path \in RequestPaths : Navigate(path)
    \/ \E i \in 1..MaxCalls : Server_getAbsences(i)
    \/ \E i \in 1..MaxCalls : Server_getStats(i)
    \/ \E i \in 1..MaxCalls : Server_getMyBalance(i)
    \/ \E i \in 1..MaxCalls : Server_getPendingAbsences(i)
    \/ \E i \in 1..MaxCalls : Server_getUsers(i)
    \/ \E i \in 1..MaxCalls : Server_getMyAbsences(i)
    \/ \E i \in 1..MaxCalls : Server_createAbsence(i)
    \/ \E i \in 1..MaxCalls : Server_absenceAction(i)
    \/ \E i \in 1..MaxCalls : Server_changeStatus(i)
    \/ \E i \in 1..MaxCalls : Server_deleteAbsence(i)
    \/ \E i \in 1..MaxCalls : Dashboard_fetchData_done(i)
    \/ \E i \in 1..MaxCalls : Approvals_fetchData_done(i)
    \/ \E i \in 1..MaxCalls : MyRequests_fetchAbsences_done(i)
    \/ \E i \in 1..MaxCalls : Unmounted_done(i)
    \/ setDialogOpen(TRUE)
    \/ setAbsenceType("ferie")
    \/ setStartDate(1)
    \/ setEndDate(1)
    \/ handleCreateAbsence
    \/ \E i \in 1..MaxCalls : handleCreateAbsence_done(i)
    \/ \E a \in AbsenceIds : handleApprove(a)
    \/ \E i \in 1..MaxCalls : handleApprove_done(i)
    \/ \E a \in AbsenceIds : openRejectDialog(a)
    \/ handleReject
    \/ \E i \in 1..MaxCalls : handleReject_done(i)
    \/ \E a \in AbsenceIds : openStatusDialog(a)
    \/ closeStatusDialog(TRUE)
    \/ \E s \in StatusOptions : setNewStatus(s)
    \/ handleChangeStatus
    \/ \E i \in 1..MaxCalls : handleChangeStatus_done(i)
    \/ \E a \in AbsenceIds : MyRequests_handleDelete(a)
    \/ \E i \in 1..MaxCalls : MyRequests_handleDelete_done(i)

SpecRequests == InitRequests /\ [][NextRequests]_vars

-----------------------------------------------------------------------------
(* Specification of the accrual runs that may be interrupted: an admin on  *)
(* the Users page adds hours and runs the monthly accrual, and a run may    *)
(* stop before it is through.                                              *)

NextAccrual ==
    \/ \E i \in 1..MaxCalls : Server_addHours(i)
    \/ \E i \in 1..MaxCalls : Server_accrualBegin(i)
    \/ \E i \in 1..MaxCalls, u \in UserIds : Server_accrualStep(i, u)
    \/ \E i \in 1..MaxCalls : Server_accrualEnd(i)
    \/ \E i \in 1..MaxCalls : Server_accrualInterrupt(i)
    \/ \E i \in 1..MaxCalls : Server_getUsers(i)
    \/ \E i \in 1..MaxCalls : Server_getAllBalances(i)
    \/ \E i \in 1..MaxCalls : Users_fetchData_done(i)
    \/ \E u \in UserIds : openHoursDialog(u)
    \/ setAddHoursAmount(<<"8">>)
    \/ handleAddHours
    \/ \E i \in 1..MaxCalls : handleAddHours_done(i)
    \/ handleMonthlyAccrual
    \/ \E i \in 1..MaxCalls : handleMonthlyAccrual_done(i)

SpecAccrual == Init /\ [][NextAccrual]_vars

-----------------------------------------------------------------------------
(* Specification of the management of the users: an admin on the Users     *)
(* page edits and creates users; the store holds the admin alone or the    *)
(* admin and another user.                                                 *)

\* The user documents at the start: those of InitUsers, and the admin's
\* alone.
InitUsersManaged ==
    InitUsers \cup { [u \in {1} |-> b[u]] : b \in InitUsers }

InitManaged ==
    /\ db_users \in InitUsersManaged
    /\ db_absences = EmptyMap
    /\ currentUser = [user_id |-> 1, role |-> "admin"]
    /\ route = "/users"
    /\ calls = <<Users_fetchDataCall>>
    /\ toast = NoToast
    /\ opCount = 0
    /\ ledger = [base |-> db_users, log |-> <<>>, submit |-> "none", asked |-> ""]
    /\ usersPage = UsersPageInit
    /\ dashboard = DashboardInit
    /\ approvals = ApprovalsInit
    /\ myRequests = MyRequestsInit
    /\ settingsPage = SettingsInit

NextUsers ==
    \/ \E i \in 1..MaxCalls : Server_updateUser(i)
    \/ \E i \in 1..MaxCalls : Server_register(i)
    \/ \E i \in 1..MaxCalls : Server_getUsers(i)
    \/ \E i \in 1..MaxCalls : Server_getAllBalances(i)
    \/ \E i \in 1..MaxCalls : Users_fetchData_done(i)
    \/ \E u \in UserIds : openEditDialog(u)
    \/ closeEditDialog
    \/ setEditFerieTotal(<<"-", "8">>)
    \/ handleSave
    \/ \E i \in 1..MaxCalls : handleSave_done(i)
    \/ \E open \in BOOLEAN : setAddDialog(open)
    \/ setNewUserIdentity
    \/ setNewUserHours("total_permessi_hours", <<"-", "8">>)
    \/ handleAddUser
    \/ \E i \in 1..MaxCalls : handleAddUser_done(i)

SpecUsers == InitManaged /\ [][NextUsers]_vars

-----------------------------------------------------------------------------
(* Specification of the edits of a user next to the ledger: an admin on    *)
(* the Users page adds hours, runs the monthly accrual and saves the edit  *)
(* dialog.                                                                 *)

NextEdit ==
    \/ \E i \in 1..MaxCalls : Server_addHours(i)
    \/ \E i \in 1..MaxCalls : Server_accrualBegin(i)
    \/ \E i \in 1..MaxCalls, u \in UserIds : Server_accrualStep(i, u)
    \/ \E i \in 1..MaxCalls : Server_accrualEnd(i)
    \/ \E i \in 1..MaxCalls : Server_updateUser(i)
    \/ \E i \in 1..MaxCalls : Server_getUsers(i)
    \/ \E i \in 1..MaxCalls : Server_getAllBalances(i)
    \/ \E i \in 1..MaxCalls : Users_fetchData_done(i)
    \/ \E u \in UserIds : openHoursDialog(u)
    \/ setAddHoursAmount(<<"8">>)
    \/ handleAddHours
    \/ \E i \in 1..MaxCalls : handleAddHours_done(i)
    \/ handleMonthlyAccrual
    \/ \E i \in 1..MaxCalls : handleMonthlyAccrual_done(i)
    \/ \E u \in UserIds : openEditDialog(u)
    \/ closeEditDialog
    \/ handleSave
    \/ \E i \in 1..MaxCalls : handleSave_done(i)

SpecEdit == Init /\ [][NextEdit]_vars

-----------------------------------------------------------------------------
(* Specification of the pages that take a row out of their list: an        *)
(* approver on the page of the pending requests, the owner of two pending  *)
(* requests on "Le mie richieste", or an admin on the Users page.          *)

\* The store holds two pending requests of the last user.
TwoPending ==
    [id \in {1, 2} |->
        IF id = 1 THEN Absence(NumUsers, "permesso", 1, 1, Num(8), "pending")
        ELSE Absence(NumUsers, "ferie", 1, MaxDay, null, "pending")]

InitRemovals ==
    /\ db_users \in InitUsers
    /\ db_absences = TwoPending
    /\ route \in {"/approvals", "/my-requests", "/users"}
    /\ currentUser = IF route = "/my-requests"
                     THEN [user_id |-> NumUsers, role |-> db_users[NumUsers].role]
                     ELSE [user_id |-> 1, role |-> "admin"]
    /\ calls = <<IF route = "/approvals"
                 THEN PendingApprovals_fetchPendingAbsencesCall
                 ELSE MountCall(route)>>
    /\ toast = NoToast
    /\ opCount = 0
    /\ ledger = [base |-> db_users, log |-> <<>>, submit |-> "none", asked |-> ""]
    /\ usersPage = UsersPageInit
    /\ dashboard = DashboardInit
    /\ approvals = PendingApprovalsInit
    /\ myRequests = MyRequestsInit
    /\ settingsPage = SettingsInit

NextRemovals ==
    \/ \E i \in 1..MaxCalls : Server_getPendingAbsences(i)
    \/ \E i \in 1..MaxCalls : Server_absenceAction(i)
    \/ \E i \in 1..MaxCalls : Server_getMyAbsences(i)
    \/ \E i \in 1..MaxCalls : Server_deleteAbsence(i)
    \/ \E i \in 1..MaxCalls : Server_getUsers(i)
    \/ \E i \in 1..MaxCalls : Server_getAllBalances(i)
    \/ \E i \in 1..MaxCalls : Server_deleteUser(i)
    \/ \E i \in 1..MaxCalls : PendingApprovals_fetchPendingAbsences_done(i)
    \/ \E a \in AbsenceIds : PendingApprovals_handleApprove(a)
    \/ \E i \in 1..MaxCalls : PendingApprovals_handleApprove_done(i)
    \/ \E a \in AbsenceIds : PendingApprovals_openRejectDialog(a)
    \/ \E cancel \in BOOLEAN : PendingApprovals_closeRejectDialog(cancel)
    \/ \E r \in ReasonInputs : PendingApprovals_setRejectReason(r)
    \/ PendingApprovals_handleReject
    \/ \E i \in 1..MaxCalls : PendingApprovals_handleReject_done(i)
    \/ \E i \in 1..MaxCalls : MyRequests_fetchAbsences_done(i)
    \/ \E a \in AbsenceIds : MyRequests_handleDelete(a)
    \/ \E i \in 1..MaxCalls : MyRequests_handleDelete_done(i)
    \/ \E i \in 1..MaxCalls : Users_fetchData_done(i)
    \/ \E u \in UserIds : Users_handleDelete(u)
    \/ \E i \in 1..MaxCalls : Users_handleDelete_done(i)

SpecRemovals == InitRemovals /\ [][NextRemovals]_vars

-----------------------------------------------------------------------------
(* Specification of the busy flags: an admin on the Dashboard, the         *)
(* Approvals page or the Users page; every request sent is answered in the *)
(* end, and a handler that awaits an answer goes on when it has come.      *)

InitBusy ==
    /\ db_users \in InitUsers
    /\ db_users[1].total_ferie_hours > 0
    /\ db_absences \in InitAbsences
    /\ currentUser = [user_id |-> 1, role |-> "admin"]
    /\ route \in {"/", "/approvals", "/users"}
    /\ calls = <<MountCall(route)>>
    /\ toast = NoToast
    /\ opCount = 0
    /\ ledger = [base |-> db_users, log |-> <<>>, submit |-> "none", asked |-> ""]
    /\ usersPage = UsersPageInit
    /\ dashboard = DashboardInit
    /\ approvals = ApprovalsInit
    /\ myRequests = MyRequestsInit
    /\ settingsPage = SettingsInit

NextBusy ==
    \/ \E i \in 1..MaxCalls : Server_addHours(i)
    \/ \E i \in 1..MaxCalls : Server_accrualBegin(i)
    \/ \E i \in 1..MaxCalls, u \in UserIds : Server_accrualStep(i, u)
    \/ \E i \in 1..MaxCalls : Server_accrualEnd(i)
    \/ \E i \in 1..MaxCalls : Server_deleteUser(i)
    \/ \E i \in 1..MaxCalls : Server_getUsers(i)
    \/ \E i \in 1..MaxCalls : Server_getAllBalances(i)
    \/ \E i \in 1..MaxCalls : Server_getAbsences(i)
    \/ \E i \in 1..MaxCalls : Server_getStats(i)
    \/ \E i \in 1..MaxCalls : Server_getMyBalance(i)
    \/ \E i \in 1..MaxCalls : Server_getPendingAbsences(i)
    \/ \E i \in 1..MaxCalls : Server_createAbsence(i)
    \/ \E i \in 1..MaxCalls : Server_absenceAction(i)
    \/ \E i \in 1..MaxCalls : Server_changeStatus(i)
    \/ \E i \in 1..MaxCalls : Users_fetchData_done(i)
    \/ openHoursDialog(NumUsers)
    \/ \E s \in {<<"8">>, <<"x">>} : setAddHoursAmount(s)
    \/ handleAddHours
    \/ \E i \in 1..MaxCalls : handleAddHours_done(i)
    \/ handleMonthlyAccrual
    \/ \E i \in 1..MaxCalls : handleMonthlyAccrual_done(i)
    \/ \E u \in UserIds : Users_handleDelete(u)
    \/ \E i \in 1..MaxCalls : Users_handleDelete_done(i)
    \/ \E i \in 1..MaxCalls : Dashboard_fetchData_done(i)
    \/ setDialogOpen(TRUE)
    \/ setAbsenceType("ferie")
    \/ setStartDate(1)
    \/ setEndDate(1)
    \/ handleCreateAbsence
    \/ \E i \in 1..MaxCalls : handleCreateAbsence_done(i)
    \/ \E i \in 1..MaxCalls : Approvals_fetchData_done(i)
    \/ \E a \in AbsenceIds : handleApprove(a)
    \/ \E i \in 1..MaxCalls : handleApprove_done(i)
    \/ \E a \in AbsenceIds : openRejectDialog(a)
    \/ handleReject
    \/ \E i \in 1..MaxCalls : handleReject_done(i)
    \/ \E a \in AbsenceIds : openStatusDialog(a)
    \/ setNewStatus("pending")
    \/ handleChangeStatus
    \/ \E i \in 1..MaxCalls : handleChangeStatus_done(i)

\* The server answers call i.
ServerReturns(i) ==
    \/ Server_addHours(i)
    \/ Server_accrualBegin(i)
    \/ \E u \in UserIds : Server_accrualStep(i, u)
    \/ Server_accrualEnd(i)
    \/ Server_deleteUser(i)
    \/ Server_getUsers(i)
    \/ Server_getAllBalances(i)
    \/ Server_getAbsences(i)
    \/ Server_getStats(i)
    \/ Server_getMyBalance(i)
    \/ Server_getPendingAbsences(i)
    \/ Server_createAbsence(i)
    \/ Server_absenceAction(i)
    \/ Server_changeStatus(i)

\* The handler that awaits call i goes on after its await.
HandlerResumes(i) ==
    \/ Users_fetchData_done(i)
    \/ handleAddHours_done(i)
    \/ handleMonthlyAccrual_done(i)
    \/ Users_handleDelete_done(i)
    \/ Dashboard_fetchData_done(i)
    \/ handleCreateAbsence_done(i)
    \/ Approvals_fetchData_done(i)
    \/ handleApprove_done(i)
    \/ handleReject_done(i)
    \/ handleChangeStatus_done(i)

\* Every server call returns in the end, and the event loop runs the
\* continuation of a settled promise.
FairBusy ==
    \A i \in 1..MaxCalls :
        WF_vars(ServerReturns(i)) /\ WF_vars(HandlerResumes(i))

SpecBusy == InitBusy /\ [][NextBusy]_vars /\ FairBusy

-----------------------------------------------------------------------------
(* Specification of the calendar of the Dashboard: a user has just opened  *)
(* the Dashboard at some instant of some day; the store holds requests     *)
(* made and decided earlier.                                               *)

\* Stores at the start: an approved vacation request over all the days next
\* to a permit request of one day, approved or pending.
InitCalendarAbsences ==
    { [id \in {1, 2} |->
          IF id = 1 THEN Absence(NumUsers, "ferie", 1, MaxDay, null, "approved")
          ELSE Absence(1, "permesso", d, d, Num(8), st)] :
        d \in Days, st \in {"approved", "pending"} }

InitCalendar ==
    /\ db_users \in InitUsers
    /\ db_absences \in InitCalendarAbsences
    /\ \E u \in UserIds : currentUser = [user_id |-> u, role |-> db_users[u].role]
    /\ route = "/"
    /\ calls = <<Dashboard_fetchDataCall>>
    /\ toast = NoToast
    /\ opCount = 0
    /\ ledger = [base |-> db_users, log |-> <<>>, submit |-> "none", asked |-> ""]
    /\ usersPage = UsersPageInit
    /\ \E day \in Days, time \in Times :
          dashboard = [DashboardInit EXCEPT !.selectedDate = NewDate(day, time)]
    /\ approvals = ApprovalsInit
    /\ myRequests = MyRequestsInit
    /\ settingsPage = SettingsInit

NextCalendar ==
    \/ \E i \in 1..MaxCalls : Server_getAbsences(i)
    \/ \E i \in 1..MaxCalls : Server_getStats(i)
    \/ \E i \in 1..MaxCalls : Server_getMyBalance(i)
    \/ \E i \in 1..MaxCalls : Dashboard_fetchData_done(i)
    \/ \E d \in Days : setSelectedDate(d)
    \/ \E st \in FilterStatuses : setFilterStatus(st)
    \/ \E checked \in BOOLEAN : setFilterFerie(checked)
    \/ \E checked \in BOOLEAN : setFilterPermesso(checked)
    \/ \E checked \in BOOLEAN : setFilterMalattia(checked)

SpecCalendar == InitCalendar /\ [][NextCalendar]_vars

-----------------------------------------------------------------------------
(* Properties of the ledger *)

\* The number a text typed into an hours input stands for, in half hours.
TypedHours(s) ==
    CASE s = <<"8">> -> 16
      [] s = <<"-", "8">> -> 0 - 16
      [] s = <<"0", ".", "5">> -> 1
      [] OTHER -> 0

TypedNumeric(s) == s \in {<<"8">>, <<"-", "8">>, <<"0", ".", "5">>}

LogIndexes == 1..Len(ledger.log)

\* C4: a successful adjustHours(userId, category, deltaHours) sets that
\* user's total of that category to its previous value plus deltaHours, the
\* user, category and amount being those of the add-hours dialog, for
\* positive and for negative amounts.
C4_AdjustAddsDelta ==
    [][\A i \in 1..MaxCalls :
          (Server_addHours(i) /\ calls'[i].st = "ok") =>
              LET c == calls[i]
                  u == c.closure.hoursDialog.user
                  key == TotalKey(c.closure.addHoursType)
              IN  /\ u \in DOMAIN db_users
                  /\ db_users'[u][key] =
                        db_users[u][key] + TypedHours(c.closure.addHoursAmount)]_vars

\* A negative adjustment has been applied.
C4_Witness ==
    \E k \in LogIndexes :
        /\ ledger.log[k].kind = "adjust"
        /\ ledger.log[k].typed = <<"-", "8">>
        /\ ledger.log[k].after = ledger.log[k].before - 16

RECURSIVE Adjusted(_, _, _)
\* sum of the adjustments the first k log entries made to user u's total key
Adjusted(k, u, key) ==
    IF k = 0 THEN 0
    ELSE LET e == ledger.log[k]
         IN  Adjusted(k - 1, u, key)
             + (IF e.kind = "adjust" /\ e.user = u /\ TotalKey(e.hours_type) = key
                THEN e.after - e.before ELSE 0)

RunsCompleted == Cardinality({k \in LogIndexes : ledger.log[k].kind = "run"})

AccrualRunning == \E i \in 1..Len(calls) : calls[i].st = "running"

\* C5: whenever no accrual run is under way, every user's vacation and permit
\* totals have grown, over the starting totals and the adjustments made, by
\* the user's monthly amounts once per completed run of runMonthlyAccrual:
\* one run adds them once, two runs add them twice.
C5_AccrualAddsMonthlyPerRun ==
    ~AccrualRunning =>
        \A u \in DOMAIN db_users :
            /\ db_users[u].total_ferie_hours =
                  ledger.base[u].total_ferie_hours
                  + Adjusted(Len(ledger.log), u, "total_ferie_hours")
                  + RunsCompleted * ledger.base[u].monthly_ferie_hours
            /\ db_users[u].total_permessi_hours =
                  ledger.base[u].total_permessi_hours
                  + Adjusted(Len(ledger.log), u, "total_permessi_hours")
                  + RunsCompleted * ledger.base[u].monthly_permessi_hours
            /\ db_users[u].monthly_ferie_hours = ledger.base[u].monthly_ferie_hours
            /\ db_users[u].monthly_permessi_hours = ledger.base[u].monthly_permessi_hours

\* Two runs have completed and the totals are doubled-up.
C5_Witness ==
    /\ RunsCompleted = 2 /\ ~AccrualRunning
    /\ \A u \in UserIds :
          /\ u \in DOMAIN db_users
          /\ db_users[u].total_ferie_hours =
                ledger.base[u].total_ferie_hours + 2 * db_users[u].monthly_ferie_hours

\* Log entries that write user u's vacation total.
TouchesFerie(e, u) ==
    \/ e.kind = "adjust" /\ e.user = u /\ e.hours_type = "ferie"
    \/ e.kind = "accrual" /\ e.user = u

InverseAdjustments(j, k) ==
    /\ j < k
    /\ ledger.log[j].kind = "adjust" /\ ledger.log[k].kind = "adjust"
    /\ ledger.log[j].user = ledger.log[k].user
    /\ ledger.log[j].hours_type = "ferie" /\ ledger.log[k].hours_type = "ferie"
    /\ ledger.log[j].typed = <<"8">> /\ ledger.log[k].typed = <<"-", "8">>
    /\ \A m \in (j + 1)..(k - 1) : ~TouchesFerie(ledger.log[m], ledger.log[j].user)

\* C6: adjustHours(u, vacation, +8) followed by adjustHours(u, vacation, -8),
\* with no other write of u's vacation total in between, leaves the total at
\* the value it had before the first of the two.
C6_AdditiveInverse ==
    \A j, k \in LogIndexes :
        InverseAdjustments(j, k) => ledger.log[k].after = ledger.log[j].before

C6_Witness ==
    \E j, k \in LogIndexes :
        /\ InverseAdjustments(j, k)
        /\ ledger.log[j].after = ledger.log[j].before + 16

-----------------------------------------------------------------------------
(* Properties of the balance and of the absence requests *)

\* Hours of a stored request, read off its fields.
RequestHours(a) ==
    CASE a.absence_type = "permesso" -> a.hours.v
      [] a.absence_type = "ferie" -> (a.end_date - a.start_date + 1) * 16
      [] OTHER -> 0

RECURSIVE HoursUpTo(_, _, _, _)
\* hours of user u's requests of the type and status among the ids 1..n
HoursUpTo(n, u, type, status) ==
    IF n = 0 THEN 0
    ELSE HoursUpTo(n - 1, u, type, status)
         + (IF /\ n \in DOMAIN db_absences
               /\ db_absences[n].user_id = u
               /\ db_absences[n].absence_type = type
               /\ db_absences[n].status = status
            THEN RequestHours(db_absences[n]) ELSE 0)

\* remaining = total - used - pending in both categories of a balance
BalanceIdentity(b) ==
    /\ b.ferie_remaining = b.ferie_total - b.ferie_used - b.ferie_pending
    /\ b.permessi_remaining = b.permessi_total - b.permessi_used - b.permessi_pending

\* C1: for every user and both hour categories computeBalance gives
\* remaining = total - used - pending, used being the hours of the user's
\* approved requests of the category and pending those of the pending ones;
\* rejected requests count for neither.  The balance the Dashboard shows
\* satisfies the same identity.
C1_BalanceIsTotalMinusUsedMinusPending ==
    /\ \A u \in DOMAIN db_users :
          LET b == computeBalance(db_users, db_absences, u)
          IN  /\ BalanceIdentity(b)
              /\ b.ferie_total = db_users[u].total_ferie_hours
              /\ b.permessi_total = db_users[u].total_permessi_hours
              /\ b.ferie_used = HoursUpTo(MaxAbsences, u, "ferie", "approved")
              /\ b.ferie_pending = HoursUpTo(MaxAbsences, u, "ferie", "pending")
              /\ b.permessi_used = HoursUpTo(MaxAbsences, u, "permesso", "approved")
              /\ b.permessi_pending = HoursUpTo(MaxAbsences, u, "permesso", "pending")
    /\ "ferie_total" \in DOMAIN dashboard.balance => BalanceIdentity(dashboard.balance)

\* A user's permit request was rejected from the Approvals page while the
\* user's vacation request is pending.
C1_Witness ==
    /\ \E u \in DOMAIN db_users :
          /\ HoursUpTo(MaxAbsences, u, "permesso", "rejected") > 0
          /\ HoursUpTo(MaxAbsences, u, "ferie", "pending") > 0
          /\ computeBalance(db_users, db_absences, u).permessi_pending = 0
    /\ toast = Toast("success", "Richiesta rifiutata")

\* The step in which the server decides the pending request of call i, sent
\* by the given handler of the Approvals page.
Decides(i, handler) ==
    /\ Server_absenceAction(i)
    /\ calls[i].handler = handler
    /\ calls[i].id \in DOMAIN db_absences
    /\ db_absences[calls[i].id].status = "pending"

\* The four quantities of the category of request a in its owner's balance.
CategoryBalance(users, absences, a) ==
    LET b == computeBalance(users, absences, a.user_id)
    IN  IF a.absence_type = "permesso"
        THEN <<b.permessi_total, b.permessi_used, b.permessi_pending, b.permessi_remaining>>
        ELSE <<b.ferie_total, b.ferie_used, b.ferie_pending, b.ferie_remaining>>

\* C2: when a pending request of h hours is approved from the Approvals page,
\* the owner's balance of the request's category has pending lowered by h and
\* used raised by h, total and remaining staying as they were.
C2_ApprovalMovesPendingToUsed ==
    [][\A i \in 1..MaxCalls :
          Decides(i, "handleApprove") =>
              LET a == db_absences[calls[i].id]
                  h == RequestHours(a)
                  before == CategoryBalance(db_users, db_absences, a)
                  after == CategoryBalance(db_users', db_absences', a)
              IN  /\ calls'[i].st = "ok"
                  /\ after = <<before[1], before[2] + h, before[3] - h, before[4]>>]_vars

\* The permit request of 4 h of a user with 40 h of permits was approved and
\* handleApprove is through: the balance went from {40, 0, 4, 36} to
\* {40, 4, 0, 36}.
C2_Witness ==
    /\ DOMAIN db_absences = {1}
    /\ db_absences[1].status = "approved"
    /\ CategoryBalance(db_users, db_absences, db_absences[1]) = <<80, 8, 0, 72>>
    /\ CategoryBalance(db_users,
                       [db_absences EXCEPT ![1].status = "pending"],
                       db_absences[1]) = <<80, 0, 8, 72>>
    /\ toast = Toast("success", "Richiesta approvata!")
    /\ approvals.processing = NoAbsence

\* C3: when a pending request of h hours is rejected from the Approvals page,
\* the owner's balance of the request's category has pending lowered by h,
\* used as it was and remaining raised by h.
C3_RejectionFreesPending ==
    [][\A i \in 1..MaxCalls :
          Decides(i, "handleReject") =>
              LET a == db_absences[calls[i].id]
                  h == RequestHours(a)
                  before == CategoryBalance(db_users, db_absences, a)
                  after == CategoryBalance(db_users', db_absences', a)
              IN  /\ calls'[i].st = "ok"
                  /\ after = <<before[1], before[2], before[3] - h, before[4] + h>>]_vars

\* The vacation request of two days was rejected and handleReject is through.
C3_Witness ==
    /\ 2 \in DOMAIN db_absences
    /\ db_absences[2].status = "rejected"
    /\ db_absences[2].absence_type = "ferie"
    /\ CategoryBalance(db_users, db_absences, db_absences[2]) = <<64, 0, 0, 64>>
    /\ toast = Toast("success", "Richiesta rifiutata")
    /\ ~approvals.rejectDialog.open

\* Hours of a permit request within the bounds 0.5 h and 8 h.
PermitHoursInRange(hours) ==
    hours.t = "number" /\ hours.v >= 1 /\ hours.v <= 16

\* Texts of the hours input that stand for 0 h and for 8.5 h.
OutOfRangeHours == {<<"0">>, <<"8", ".", "5">>}

\* C7: a permit request with hours of 0 or above 8 is not created: a click
\* on "Invia Richiesta" with such hours sends nothing, leaves the store and so
\* the owner's pending sum alone; no createAbsence call in flight and no
\* stored permit request has hours outside 0.5 to 8.
C7_OutOfRangePermitRejected ==
    [][/\ (/\ handleCreateAbsence
           /\ dashboard.absenceType = "permesso"
           /\ dashboard.hours \in OutOfRangeHours)
          => /\ calls' = calls
             /\ db_absences' = db_absences
             /\ ledger'.submit = "invalid"
             /\ computeBalance(db_users', db_absences', currentUser.user_id).permessi_pending
                   = computeBalance(db_users, db_absences, currentUser.user_id).permessi_pending
       /\ \A i \in 1..Len(calls') :
             (calls'[i].api = "createAbsence" /\ calls'[i].body.absence_type = "permesso")
                => PermitHoursInRange(calls'[i].body.hours)
       /\ \A id \in DOMAIN db_absences' :
             db_absences'[id].absence_type = "permesso"
                => PermitHoursInRange(db_absences'[id].hours)]_vars

\* A permit form, complete but for hours of 8.5, was submitted and refused.
C7_Witness ==
    /\ ledger.submit = "invalid"
    /\ dashboard.dialogOpen
    /\ dashboard.absenceType = "permesso"
    /\ dashboard.hours = <<"8", ".", "5">>
    /\ dashboard.startDate # NoDate /\ dashboard.endDate >= dashboard.startDate
    /\ calls = <<>>

\* C8: a click on "Invia Richiesta" for a permit request with the hours left
\* empty is refused as invalid: no call is sent, the dialog stays open with
\* the values entered, and the store is left alone.
C8_MissingHoursRejected ==
    [][(/\ handleCreateAbsence
        /\ dashboard.absenceType = "permesso"
        /\ dashboard.hours = <<>>)
       => /\ calls' = calls
          /\ opCount' = opCount
          /\ dashboard' = dashboard
          /\ dashboard'.dialogOpen
          /\ db_absences' = db_absences
          /\ ledger'.submit \in {"invalid", "returned"}]_vars

\* A permit form, complete but for the hours, was submitted and refused.
C8_Witness ==
    /\ ledger.submit \in {"invalid", "returned"}
    /\ dashboard.dialogOpen
    /\ dashboard.absenceType = "permesso"
    /\ dashboard.hours = <<>>
    /\ dashboard.startDate # NoDate /\ dashboard.endDate >= dashboard.startDate
    /\ db_absences = EmptyMap

-----------------------------------------------------------------------------
(* Properties of the access to the operations *)

\* The add-hours dialog is within the session user's reach: the router
\* renders the Users page, the one page that holds the dialog, for the user,
\* and the page shows the user the "Ore" buttons.
AddHoursReachable ==
    /\ ProtectedRoute("/users", currentUser) = "/users"
    /\ canManageHours

\* C10: a logged-in user can reach and perform the add-hours operation
\* exactly when the user's role is admin, manager or ufficio_personale.
C10_AddHoursByPrivilegedRoles ==
    currentUser # NoSession =>
        (AddHoursReachable <=>
            currentUser.role \in {"admin", "manager", "ufficio_personale"})

\* What the pages do: only an admin ever has the add-hours dialog open.
C10_OnlyAdminReachesAddHours ==
    usersPage.hoursDialog.open => currentUser.role = "admin"

\* The role of the caller of call i; no action changes the role of a user,
\* and a caller may have been deleted since the call was sent.
CallerRole(i) ==
    IF calls[i].caller \in DOMAIN ledger.base
    THEN ledger.base[calls[i].caller].role
    ELSE "none"

\* C11: the monthly accrual is triggered only by a user whose role is admin
\* or ufficio_personale: the page starts handleMonthlyAccrual for no other
\* user, and the server begins a run, and writes a user's totals in a run,
\* for no other caller.
C11_AccrualOnlyByAdminOrPersonnelOffice ==
    [][/\ handleMonthlyAccrual
             => currentUser.role \in {"admin", "ufficio_personale"}
       /\ \A i \in 1..MaxCalls :
             /\ (Server_accrualBegin(i) /\ calls'[i].st = "running")
                   => CallerRole(i) \in {"admin", "ufficio_personale"}
             /\ \A u \in UserIds :
                   Server_accrualStep(i, u)
                      => CallerRole(i) \in {"admin", "ufficio_personale"}]_vars

\* A run triggered by the admin has completed, and a manager or an employee
\* is logged in and past the loading of the Dashboard.
C11_Witness ==
    /\ RunsCompleted = 1
    /\ currentUser.role \in {"manager", "employee"}
    /\ route = "/" /\ ~dashboard.loading

-----------------------------------------------------------------------------
(* Properties of the life of a request *)

\* The step changes the status of request a.
StatusChanged(a) ==
    /\ a \in DOMAIN db_absences /\ a \in DOMAIN db_absences'
    /\ db_absences'[a].status # db_absences[a].status

\* The page lists request a as pending.
ListedPending(list, a) == a \in DOMAIN list /\ list[a].status = "pending"

\* The call the step has put in flight.
NewCall == calls'[Len(calls')]

Mutated(a) ==
    /\ a \in DOMAIN db_absences
    /\ a \in DOMAIN db_absences' => db_absences'[a] # db_absences[a]

\* C13: a request leaves the store only in a step that serves a delete sent
\* by its owner while its status is pending; "Elimina" is pressed only on a
\* row the page lists as pending; and a request that is approved or rejected
\* stays in the store and is changed by nothing but the status override of
\* an admin or a manager.
C13_OwnerDeletesOnlyWhilePending ==
    [][\A a \in AbsenceIds :
          /\ (a \in DOMAIN db_absences /\ a \notin DOMAIN db_absences') =>
                \E i \in 1..MaxCalls :
                   /\ Server_deleteAbsence(i)
                   /\ calls[i].id = a
                   /\ calls[i].caller = db_absences[a].user_id
                   /\ db_absences[a].status = "pending"
          /\ MyRequests_handleDelete(a) =>
                ListedPending(myRequests.absences, a)
          /\ (Mutated(a) /\ db_absences[a].status \in {"approved", "rejected"}) =>
                /\ a \in DOMAIN db_absences'
                /\ \E i \in 1..MaxCalls :
                      /\ Server_changeStatus(i)
                      /\ calls[i].id = a
                      /\ CallerRole(i) \in ApproverRoles]_vars

\* The owner pressed "Elimina" on a row still listed as pending after the
\* request had been approved, and the delete was refused.
C13_Witness ==
    /\ MyRequestsRendered
    /\ toast = Toast("error", "Errore nell'eliminazione")
    /\ \E a \in DOMAIN db_absences :
          /\ db_absences[a].user_id = currentUser.user_id
          /\ db_absences[a].status = "approved"
          /\ ListedPending(myRequests.absences, a)

\* The statuses of a request.
Statuses == {"pending", "approved", "rejected"}

\* C14: the status of every request in the store is one of pending,
\* approved and rejected, and a request that enters the store has the status
\* pending.
C14_StatusIsOneOfThree ==
    /\ [](\A a \in DOMAIN db_absences : db_absences[a].status \in Statuses)
    /\ [][\A a \in DOMAIN db_absences' :
             a \notin DOMAIN db_absences => db_absences'[a].status = "pending"]_vars

\* A request the admin has just made is pending next to a request that has
\* been decided.
C14_Witness ==
    /\ \E a \in DOMAIN db_absences :
          db_absences[a].user_id = 1 /\ db_absences[a].status = "pending"
    /\ \E b \in DOMAIN db_absences :
          db_absences[b].status \in {"approved", "rejected"}

-----------------------------------------------------------------------------
(* Properties of the balances served *)

\* The response of the GET named part that call i holds after the step.
Served(i, part) == calls'[i].data[part]

Asking(cs, part) == {i \in 1..Len(cs) : part \in DOMAIN cs[i].data}

\* C16: GET /balance/my is answered for every caller who is a user, whatever
\* the role, with computeBalance of that caller, and the balance the
\* Dashboard shows is that of the session's user; GET /balance/all is put in
\* flight only by a session whose role is admin, manager or
\* ufficio_personale, is answered for no other caller, and the hours overview
\* holds balances in no other session.
C16_OwnBalanceForAllOthersForPrivileged ==
    /\ [](/\ "user_id" \in DOMAIN dashboard.balance
             => dashboard.balance.user_id = currentUser.user_id
          /\ usersPage.balances # EmptyMap
             => currentUser.role \in AdjustmentRoles
          /\ \A i \in Asking(calls, "balances") :
                CallerRole(i) \in AdjustmentRoles)
    /\ [][\A i \in 1..MaxCalls :
             /\ Server_getMyBalance(i) =>
                   IF calls[i].caller \in DOMAIN db_users
                   THEN /\ Served(i, "balance").t = "ok"
                        /\ Served(i, "balance").v.user_id = calls[i].caller
                        /\ Served(i, "balance").v =
                              computeBalance(db_users, db_absences, calls[i].caller)
                   ELSE Served(i, "balance").t = "err"
             /\ (Server_getAllBalances(i) /\ Served(i, "balances").t = "ok")
                   => CallerRole(i) \in AdjustmentRoles]_vars

\* An employee's Dashboard shows the employee's own balance, with hours
\* pending, while the admin has none.
C16_Witness ==
    /\ currentUser.role = "employee"
    /\ DashboardRendered
    /\ "user_id" \in DOMAIN dashboard.balance
    /\ dashboard.balance.user_id = currentUser.user_id
    /\ dashboard.balance.permessi_pending > 0
    /\ computeBalance(db_users, db_absences, 1).permessi_pending = 0

-----------------------------------------------------------------------------
(* Properties of the routing *)

\* C17: without a session the router is at /login, whatever path is asked
\* for; the Approvals page is rendered in sessions of an admin or a manager
\* only, the Users and the Settings page in sessions of an admin only;
\* asking for one of these pages in a session of another role ends up at the
\* Dashboard, and asking for a page the role may open ends up at that page;
\* and clicking an entry the sidebar shows ends up at the page of the entry.
C17_PagesAreRoleGated ==
    /\ [](/\ currentUser = NoSession => route = "/login"
          /\ route = "/approvals" => currentUser.role \in {"admin", "manager"}
          /\ route \in {"/users", "/settings"} => currentUser.role = "admin")
    /\ [][\A path \in AllPaths :
             /\ OpenPath(path) =>
                   LET may == CASE path = "/approvals" ->
                                      currentUser.role \in {"admin", "manager"}
                                [] path \in {"/users", "/settings"} ->
                                      currentUser.role = "admin"
                                [] OTHER -> TRUE
                   IN  route' = IF currentUser = NoSession THEN "/login"
                                ELSE IF may THEN path
                                ELSE "/"
             /\ NavClick(path) => route' = path]_vars

\* An employee asked for the Users page and is at the Dashboard.
C17_Witness ==
    /\ currentUser.role = "employee"
    /\ ledger.asked = "/users"
    /\ route = "/"

\* A visitor without a session asked for the Settings page and is at the
\* login page.
C17_WitnessVisitor ==
    /\ currentUser = NoSession
    /\ ledger.asked = "/settings"
    /\ route = "/login"

-----------------------------------------------------------------------------
(* Further properties of the ledger *)

\* C18: "Aggiungi" with a negative amount typed sends that amount, and the
\* server applies a negative amount sent by an admin to an existing user,
\* answering with success, also when the total it leaves is below zero.
C18_NoLowerBoundOnAdjust ==
    [][/\ (handleAddHours /\ usersPage.addHoursAmount = <<"-", "8">>) =>
             /\ Len(calls') = Len(calls) + 1
             /\ NewCall.body.hours = Num(0 - 16)
       /\ \A i \in 1..MaxCalls :
             (/\ Server_addHours(i)
              /\ calls[i].body.hours.t = "number" /\ calls[i].body.hours.v < 0
              /\ calls[i].id \in DOMAIN db_users
              /\ CallerRole(i) = "admin") =>
                LET key == TotalKey(calls[i].body.hours_type)
                IN  /\ calls'[i].st = "ok"
                    /\ db_users'[calls[i].id][key] =
                          db_users[calls[i].id][key] + calls[i].body.hours.v]_vars

\* A total is below zero after a negative adjustment that succeeded, and the
\* hours overview shows the negative remaining hours.
C18_Witness ==
    /\ UsersRendered
    /\ \E u \in DOMAIN db_users :
          /\ db_users[u].total_ferie_hours < 0
          /\ u \in DOMAIN usersPage.balances
          /\ usersPage.balances[u].ferie_remaining < 0
    /\ \E k \in LogIndexes :
          ledger.log[k].kind = "adjust" /\ ledger.log[k].after < 0

\* C19: a user leaves the store only in a step that serves a delete sent by
\* an admin other than that user, and "Elimina" is pressed only by an admin
\* on a row other than their own.
C19_UserDeletedOnlyByOtherAdmin ==
    [][\A u \in UserIds :
          /\ (u \in DOMAIN db_users /\ u \notin DOMAIN db_users') =>
                \E i \in 1..MaxCalls :
                   /\ Server_deleteUser(i)
                   /\ calls[i].id = u
                   /\ CallerRole(i) = "admin"
                   /\ calls[i].caller # u
          /\ Users_handleDelete(u) =>
                /\ currentUser.role = "admin"
                /\ u # currentUser.user_id]_vars

\* The admin has deleted the other user and is still a user.
C19_Witness ==
    /\ UsersRendered
    /\ toast = Toast("success", "Utente eliminato")
    /\ currentUser.user_id \in DOMAIN db_users
    /\ \E u \in UserIds : u \notin DOMAIN db_users /\ u \notin DOMAIN usersPage.users

RECURSIVE LedgerSum(_, _, _)
\* What the first k writes of the log added to user u's total of a category:
\* the amounts typed for the adjustments of that user and category, and for
\* each accrual write of that user the monthly rate it read.
LedgerSum(k, u, type) ==
    IF k = 0 THEN 0
    ELSE LET e == ledger.log[k]
         IN  LedgerSum(k - 1, u, type)
             + (IF e.kind = "adjust" /\ e.user = u /\ e.hours_type = type
                THEN TypedHours(e.typed)
                ELSE IF e.kind = "accrual" /\ e.user = u
                THEN e.rate[type]
                ELSE 0)

\* C20: in every state, also in the middle of an accrual run, the total of
\* every user in the store for each category is the total at the start plus
\* the amounts typed for the adjustments applied to that user and category
\* plus, for each accrual write of that user, the user's monthly rate of the
\* category at that write.
C20_TotalIsRunningSum ==
    \A u \in DOMAIN db_users :
        \A type \in {"ferie", "permessi"} :
            db_users[u][TotalKey(type)] =
                ledger.base[u][TotalKey(type)]
                + LedgerSum(Len(ledger.log), u, type)

\* A negative adjustment has been applied and an accrual run has written one
\* user and not yet the other.
C20_Witness ==
    /\ AccrualRunning
    /\ Cardinality({k \in LogIndexes : ledger.log[k].kind = "accrual"}) = 1
    /\ \E k \in LogIndexes :
          ledger.log[k].kind = "adjust" /\ ledger.log[k].typed = <<"-", "8">>

-----------------------------------------------------------------------------
(* Properties of an interrupted accrual run *)

\* C21: an accrual run writes one user at a time; when a run is interrupted
\* the call fails and the interruption writes nothing, so that the users the
\* run had gone through have both totals raised once by their monthly
\* amounts over what they were when the run began, and the users it had not
\* reached are as they were; the page, told of the failure, sends nothing
\* that would undo or finish the run.
C21_InterruptedAccrualIsPartial ==
    [][\A i \in 1..MaxCalls :
          /\ \A u \in UserIds :
                Server_accrualStep(i, u) =>
                   \A v \in DOMAIN db_users \ {u} : db_users'[v] = db_users[v]
          /\ Server_accrualInterrupt(i) =>
                /\ calls'[i].st = "err"
                /\ db_users' = db_users
                /\ DOMAIN db_users' = DOMAIN RunStart
                /\ \A u \in DOMAIN RunStart :
                      IF u \in calls[i].cursor
                      THEN db_users'[u] = RunStart[u]
                      ELSE db_users'[u] =
                              [RunStart[u] EXCEPT
                                  !.total_ferie_hours =
                                      @ + RunStart[u].monthly_ferie_hours,
                                  !.total_permessi_hours =
                                      @ + RunStart[u].monthly_permessi_hours]
          /\ (handleMonthlyAccrual_done(i) /\ calls[i].st = "err") =>
                /\ db_users' = db_users
                /\ calls' = RemoveAt(calls, i)
                /\ toast'.type = "error"]_vars

\* A run was interrupted after the write of one user of two, after an
\* adjustment had been applied; the page has shown the error.
C21_Witness ==
    /\ Len(ledger.log) >= 4
    /\ ledger.log[Len(ledger.log)].kind = "interrupted"
    /\ ledger.log[Len(ledger.log) - 1].kind = "accrual"
    /\ ledger.log[Len(ledger.log) - 2].kind = "begin"
    /\ ledger.log[1].kind = "adjust"
    /\ toast = Toast("error", "Errore nella maturazione mensile")
    /\ \E u, v \in DOMAIN db_users :
          /\ db_users[u].total_ferie_hours =
                RunStart[u].total_ferie_hours + RunStart[u].monthly_ferie_hours
          /\ db_users[v] = RunStart[v]

-----------------------------------------------------------------------------
(* Properties of the user forms *)

\* C22: no request the edit-user form (handleSave) or the new-user form
\* (handleAddUser) sends carries a negative total_ferie_hours or a negative
\* total_permessi_hours.
C22_FormsSubmitNoNegativeTotal ==
    \A i \in 1..Len(calls) :
        calls[i].api \in {"updateUser", "register"} =>
            /\ calls[i].body.total_ferie_hours.v >= 0
            /\ calls[i].body.total_permessi_hours.v >= 0

-----------------------------------------------------------------------------
(* Properties of the calendar *)

\* C23: whatever date is selected, the date of the mount included, the list
\* of the selected date holds exactly the filtered requests whose range,
\* both ends included, holds the day of the selected date, and these are the
\* requests the calendar marks that day for.
C23_SelectedDateListIsInclusive ==
    DashboardRendered =>
        LET day == dashboard.selectedDate.day
        IN  /\ selectedDateAbsences =
                  {a \in filteredAbsences :
                      /\ dashboard.absences[a].start_date <= day
                      /\ day <= dashboard.absences[a].end_date}
            /\ selectedDateAbsences = absenceDays[day]

-----------------------------------------------------------------------------
(* Frame of an adjustment *)

\* C24: adjustHours changes nothing but the total of the chosen category of
\* the chosen user: every other user's document, the user's other total,
\* both monthly amounts, the role and every other field, the set of users
\* and every request stay as they were.
C24_AdjustChangesOnlyThatTotal ==
    [][\A i \in 1..MaxCalls :
          Server_addHours(i) =>
              LET c == calls[i]
                  u == c.closure.hoursDialog.user
                  key == TotalKey(c.closure.addHoursType)
              IN  /\ DOMAIN db_users' = DOMAIN db_users
                  /\ db_absences' = db_absences
                  /\ \A v \in DOMAIN db_users :
                        /\ DOMAIN db_users'[v] = DOMAIN db_users[v]
                        /\ \A k \in DOMAIN db_users[v] :
                              db_users'[v][k] # db_users[v][k] =>
                                  v = u /\ k = key]_vars

\* The latest write was an adjustment that changed a total while the store
\* held another user.
C24_Witness ==
    /\ Len(ledger.log) > 0
    /\ LET e == ledger.log[Len(ledger.log)]
       IN  /\ e.kind = "adjust"
           /\ e.after # e.before
           /\ e.user \in DOMAIN db_users
           /\ db_users[e.user][TotalKey(e.hours_type)] = e.after
           /\ DOMAIN db_users \ {e.user} # {}

-----------------------------------------------------------------------------
(* The edit dialog and the ledger *)

\* The four hours fields of a user document.
HoursKeys == {"total_ferie_hours", "total_permessi_hours",
              "monthly_ferie_hours", "monthly_permessi_hours"}

\* The hours fields of the dialog a save was clicked in are as
\* openEditDialog filled them.
HoursFieldsUntouched(c) ==
    /\ c.editFerieTotal = NumberToString(c.editDialog.doc.total_ferie_hours)
    /\ c.editPermessiTotal = NumberToString(c.editDialog.doc.total_permessi_hours)
    /\ c.editFerieMonthly = NumberToString(c.editDialog.doc.monthly_ferie_hours)
    /\ c.editPermessiMonthly = NumberToString(c.editDialog.doc.monthly_permessi_hours)

\* C25: a save of the edit dialog whose hours fields were not modified
\* leaves the stored totals and monthly amounts of the user as they are,
\* whatever adjustments and accrual runs went before it.
C25_UntouchedSaveKeepsHours ==
    [][\A i \in 1..MaxCalls :
          (Server_updateUser(i) /\ HoursFieldsUntouched(calls[i].closure)) =>
              \A k \in HoursKeys :
                  db_users'[calls[i].id][k] = db_users[calls[i].id][k]]_vars

-----------------------------------------------------------------------------
(* Decisions of the Approvals page *)

\* A decision on request a has been sent and the list of the page does not
\* yet reflect its outcome: the call is in flight or its completion not yet
\* handled, or the store holds the request as decided while the page lists
\* it as pending.
DecisionOutstanding(a) ==
    \/ \E i \in 1..Len(calls) :
          calls[i].api = "handleAbsenceAction" /\ calls[i].id = a
    \/ /\ a \in DOMAIN db_absences /\ db_absences[a].status # "pending"
       /\ \/ a \in DOMAIN approvals.pendingAbsences
                /\ approvals.pendingAbsences[a].status = "pending"
          \/ a \in DOMAIN approvals.allAbsences
                /\ approvals.allAbsences[a].status = "pending"

\* C26: on the Approvals page no approve and no reject is sent for a request
\* for which a decision is outstanding: from the sending of a decision until
\* the reloaded list shows its outcome the buttons of the request cannot be
\* used.
C26_NoSecondDecisionWhileOutstanding ==
    [][\A a \in AbsenceIds :
          (handleApprove(a) \/ (handleReject /\ approvals.rejectDialog.absence = a))
              => ~DecisionOutstanding(a)]_vars

-----------------------------------------------------------------------------
(* Rows taken out of a list *)

\* C27: when a handler that takes a row out of the list of its page has
\* finished (approve and reject of the page of the pending requests, delete
\* of "Le mie richieste", delete of the Users page), no row is in the list
\* that was not in it before: a row taken out earlier does not come back.
C27_RemovedRowNeverReappears ==
    [][\A i \in 1..MaxCalls :
        /\ (PendingApprovals_handleApprove_done(i)
              \/ PendingApprovals_handleReject_done(i)) =>
                DOMAIN approvals'.absences \subseteq DOMAIN approvals.absences
        /\ MyRequests_handleDelete_done(i) =>
                DOMAIN myRequests'.absences \subseteq DOMAIN myRequests.absences
        /\ Users_handleDelete_done(i) =>
                DOMAIN usersPage'.users \subseteq DOMAIN usersPage.users]_vars

-----------------------------------------------------------------------------
(* The reason of a rejection *)

\* C28: whenever the reject dialog is opened for a request the reason is
\* empty, so that a reason sent with a rejection was typed while the dialog
\* was open for that request.
C28_RejectDialogOpensEmpty ==
    [][\A a \in AbsenceIds :
          openRejectDialog(a) => approvals'.rejectReason = ""]_vars

-----------------------------------------------------------------------------
(* Busy flags *)

====
